---- MODULE Spec2Model ----
(***************************************************************************)
(* Event ingestion, inbox, authentication, idempotency cache, queue        *)
(* publishing, rate limiting and the event-processing worker of the        *)
(* Zapier Triggers API, modelled from the Python sources under src/.       *)
(*                                                                         *)
(* External services (PostgreSQL, DynamoDB, SQS, Redis, webhook targets)   *)
(* are modelled by their stored contents plus, for every call the code     *)
(* makes, an outcome chosen by the environment (answers / raises).         *)
(***************************************************************************)
EXTENDS Integers, Sequences, FiniteSets, TLC

(***************************************************************************)
(* Bounds of the model                                                     *)
(***************************************************************************)
\* number of HTTP requests (concurrent or sequential) in one behaviour
MaxRequests == 2

Reqs == 1..MaxRequests

(***************************************************************************)
(* Values                                                                  *)
(***************************************************************************)
\* Python None for string-valued things
None == "None"
\* Python None / missing dictionary entry for record-valued things
Absent == [absent |-> TRUE]
\* no event id (an event id is a uuid4 string; fresh ones are numbered)
NoEvent == 0

Customers == {"cust-A", "cust-B"}

\* customers table: customer_id -> api_key (api_key is UNIQUE)
api_key_of == [c \in Customers |-> IF c = "cust-A" THEN "key-A" ELSE "key-B"]

\* bearer tokens a request may carry: empty, unknown, or a customer's key
Tokens == {"", "key-unknown", "key-A", "key-B"}

\* Idempotency-Key header values; None is "header not sent".
\* "idem-seed" is a key that already has a record in the cache when the
\* process starts (the cache outlives the process), "idem-new" has none.
IdemKeys == {"idem-seed", "idem-new"}

\* request payloads (JSON objects)
Payloads == { [event_type |-> "order.created"],
              [event_type |-> "ticket.created"] }

\* dict.get(key, default)
DictGet(d, k, default) == IF k \in DOMAIN d THEN d[k] ELSE default

(***************************************************************************)
(* JSON.  A JSON text is distinguished from the object it encodes;         *)
(* json.dumps raises TypeError on a value that holds a datetime.           *)
(***************************************************************************)
Str(s) == [type |-> "str", v |-> s]
Datetime(t) == [type |-> "datetime", v |-> t]

\* json.dumps succeeds on a flat dict iff none of its values is a datetime
json_serializable(d) == \A k \in DOMAIN d : d[k].type # "datetime"

json_dumps(v) == [json |-> v]
json_loads(s) == s.json

(***************************************************************************)
(* State                                                                   *)
(***************************************************************************)
VARIABLES
  customer_status,      \* customers.status, by customer_id
  req,                  \* HTTP requests: inputs, position in the handler, response
  listed,               \* items returned by the inbox list operation, by request
  event_table,          \* DynamoDB events table: a set of items
  table_state,          \* EventStorageService._table: "uninit", "ready", "disabled"
  sqs_client_cached,    \* app.utils.aws._sqs_client is not None
  sqs_event_queue_url,  \* settings.sqs_event_queue_url (None when unset)
  queue,                \* SQS queue: a set of messages
  idem_redis,           \* IdempotencyHandler.redis_client is not None
  idem_cache,           \* Redis keys "idempotency:<key>" -> JSON text or Absent
  next_uuid,            \* number of uuid4 values drawn so far
  acted_for,            \* history: requests for which an event was stored, enqueued or deleted
  deleted_log,          \* history: [by: customer, item: item] for every item removed
  now,                  \* int(time.time()), in seconds
  settings,             \* settings.rate_limit_per_second / rate_limit_window_seconds
  rl_redis,             \* RateLimiter.redis_client is not None
  rl_store,             \* Redis keys "rate_limit:<api_key>:<window_start>"
  rl_call,              \* passes through RateLimitMiddleware.dispatch
  worker_form,          \* deployment of the worker: "lambda" or "standalone"
  esm_report_failures,  \* the event-source mapping honours batchItemFailures
  subscription_table,   \* subscriptions table
  worker,               \* the worker's batch: records left, records invoked, failures
  webhook_log,          \* history: the latest process_event run and its deliver_with_retry
                        \* calls; the (event, workflow) pairs refused for good so far
  matcher,              \* one EventMatcher._matches_subscription call: inputs and result
  webhook_call,         \* one WebhookService.deliver_with_retry call: inputs, position,
                        \* HTTP attempts and sleeps so far, result
  validation,           \* one POST /api/v1/events seen from the request body: the
                        \* payload's measures, position, response and calls made
  health,               \* one GET /operators/health call: the scanned counts and
                        \* the response
  demo,                 \* one POST /api/check-ticket call of the demo application
  customer_rate_limit,  \* customers.rate_limit_per_second, by customer_id
  inbox_query,          \* one EventStorageService.query_events call: the customer's
                        \* items in key order, the filter, the limit, the result
  message_call,         \* one process_message call: the record and what it did
  poller,               \* the standalone worker's poll loop (scripts/worker.py)
  aws_call              \* one store_event or enqueue_event call: what the service
                        \* answers to each attempt, the calls made, the result

ingest_vars == << customer_status, req, listed, event_table, table_state,
                  sqs_client_cached, sqs_event_queue_url, queue, idem_redis,
                  idem_cache, next_uuid, acted_for, deleted_log >>

rate_vars == << now, settings, rl_redis, rl_store, rl_call, customer_rate_limit >>

worker_vars == << worker_form, esm_report_failures, subscription_table, worker,
                  webhook_log >>

unit_vars == << matcher, webhook_call, validation, health, demo,
               inbox_query, message_call, poller, aws_call >>

(***************************************************************************)
(* Customer directory and authentication                                   *)
(***************************************************************************)
\* outcomes of the relational lookup: the query answers, no session could
\* be built (store unreachable at construction), or the query raises
LookupOutcomes == {"ok", "no_session", "query_raises"}

\* get_customer_by_api_key without the status filter of its query
get_customer_by_api_key_any_status(api_key, status, outcome) ==
  IF outcome # "ok" THEN None
  ELSE IF \E c \in Customers : api_key_of[c] = api_key
       THEN CHOOSE c \in Customers : api_key_of[c] = api_key
       ELSE None

\* CustomerService.get_customer_by_api_key: the customer_id of the row with
\* this api_key and status "active", or None; every failure is swallowed
\* and reported as None
get_customer_by_api_key(api_key, status, outcome) ==
  IF outcome = "no_session" THEN None
  ELSE IF outcome = "query_raises" THEN None
  ELSE IF \E c \in Customers : api_key_of[c] = api_key /\ status[c] = "active"
       THEN CHOOSE c \in Customers : api_key_of[c] = api_key /\ status[c] = "active"
       ELSE None

\* get_customer_id_from_api_key: [code, customer_id]; code 200 stands for
\* "dependency resolved, the handler runs"
get_customer_id_from_api_key(api_key, status, outcome) ==
  IF api_key = ""
  THEN [code |-> 401, customer_id |-> None]
  ELSE LET customer == get_customer_by_api_key(api_key, status, outcome) IN
       IF customer = None
       THEN [code |-> 401, customer_id |-> None]
       ELSE [code |-> 200, customer_id |-> customer]

(***************************************************************************)
(* Idempotency cache                                                       *)
(***************************************************************************)
RedisOutcomes == {"ok", "raises"}

\* EventResponse(event_id=..., status="accepted", message=..., timestamp=utcnow())
EventResponse(event_id) ==
  [ event_id  |-> Str(event_id),
    status    |-> Str("accepted"),
    message   |-> Str("Event accepted for processing"),
    timestamp |-> Datetime("utcnow") ]

\* BaseModel.model_dump() in its default (python) mode keeps a datetime a datetime
model_dump(response) == response

\* the JSON text of an idempotency record as the cache holds it: every
\* value a JSON string
IdempotencyRecordText(event_id) ==
  json_dumps([ event_id |-> event_id,
               response |-> [ event_id  |-> Str(event_id),
                              status    |-> Str("accepted"),
                              message   |-> Str("Event accepted for processing"),
                              timestamp |-> Str("iso-8601") ] ])

\* a lookup that reads the record whether or not the client exists and the
\* call succeeds
get_cached_response_unguarded(redis_client, cache, idempotency_key, outcome) ==
  IF cache[idempotency_key] # Absent THEN json_loads(cache[idempotency_key])
  ELSE Absent

\* IdempotencyHandler.get_cached_response
get_cached_response(redis_client, cache, idempotency_key, outcome) ==
  IF ~redis_client THEN Absent
  ELSE IF outcome = "raises" THEN Absent
  ELSE IF cache[idempotency_key] # Absent THEN json_loads(cache[idempotency_key])
  ELSE Absent

\* IdempotencyHandler.cache_response: the cache after the call.  json.dumps
\* of cache_data runs inside the try block, before setex.
cache_response(redis_client, cache, idempotency_key, event_id, response_data, outcome) ==
  IF ~redis_client THEN cache
  ELSE IF ~json_serializable(response_data) THEN cache
  ELSE IF outcome = "raises" THEN cache
  ELSE [cache EXCEPT ![idempotency_key] =
          json_dumps([event_id |-> event_id, response |-> response_data])]

(***************************************************************************)
(* Event store (DynamoDB)                                                  *)
(***************************************************************************)
\* what one call to an AWS service does: it succeeds, fails with a
\* credential-expiry error code, or fails otherwise
AwsOutcomes == {"ok", "cred_err", "other_err"}

\* one attempt of a retry loop, as the environment decides it: the client
\* cannot be built when the attempt has to build it ("no_client"), or the
\* call is made and ends in one of AwsOutcomes
AttemptOutcomes == AwsOutcomes \cup {"no_client"}
builds(o) == o # "no_client"
call(o) == IF o = "no_client" THEN "other_err" ELSE o

\* a retry after any failed call
credential_error_any(outcome) == outcome # "ok"

\* error_code in ['InvalidClientTokenId', 'UnrecognizedClientException']
\* (event_storage.py:111, queue_service.py:104)
credential_error(outcome) == outcome = "cred_err"

\* attempts of the credential-refresh retry loops are numbered 0, 1, 2
max_retries == 3
Attempts == 0..(max_retries - 1)

\* what the environment does to the attempts of one retry loop.  A loop
\* reads the attempts up to the first one that is not a credential error,
\* so the later entries are fixed to "ok".
Scenarios ==
  { s \in [Attempts -> AttemptOutcomes] :
      \A a \in Attempts : s[a] # "cred_err" => \A b \in Attempts : b > a => s[b] = "ok" }

\* Table.put_item: an item replaces the item with the same key
put_item(items, item) ==
  { i \in items : ~(i.customer_id = item.customer_id /\ i.event_id = item.event_id) }
    \cup {item}

\* Table.get_item by (partition key, sort key)
get_item(items, customer_id, event_id) ==
  IF \E i \in items : i.customer_id = customer_id /\ i.event_id = event_id
  THEN CHOOSE i \in items : i.customer_id = customer_id /\ i.event_id = event_id
  ELSE Absent

\* EventStorageService.table after _initialize_dynamodb(force_refresh):
\* built on first use or on a forced refresh, kept otherwise
table_property(state, force_refresh, init_ok) ==
  IF state = "uninit" \/ force_refresh
  THEN IF init_ok THEN "ready" ELSE "disabled"
  ELSE state

\* EventStorageService.store_event from attempt `attempt` on:
\* [result, items, table_state, sqs_cached, calls]
RECURSIVE store_event_from(_, _, _, _, _, _, _, _)
store_event_from(attempt, state, force_refresh, items, sqs_cached, item, outs, calls) ==
  LET table == table_property(state, force_refresh, builds(outs[attempt])) IN
  IF table # "ready"
  THEN [result |-> FALSE, items |-> items, table_state |-> table,
        sqs_cached |-> sqs_cached, calls |-> calls]
  ELSE IF call(outs[attempt]) = "ok"
  THEN [result |-> TRUE, items |-> put_item(items, item), table_state |-> table,
        sqs_cached |-> sqs_cached, calls |-> calls + 1]
  ELSE IF credential_error(call(outs[attempt])) /\ attempt < max_retries - 1
  THEN \* clear_aws_clients(); _needs_refresh = True; _initialized = False; continue
       store_event_from(attempt + 1, "uninit", TRUE, items, FALSE, item,
                        outs, calls + 1)
  ELSE [result |-> FALSE, items |-> items, table_state |-> table,
        sqs_cached |-> sqs_cached, calls |-> calls + 1]

\* the item store_event builds
new_item(customer_id, event_id, payload, status) ==
  [ customer_id       |-> customer_id,
    event_id          |-> event_id,
    payload           |-> json_dumps(payload),
    status            |-> status,
    delivery_attempts |-> 0 ]

store_event(state, items, sqs_cached, customer_id, event_id, payload, status, outs) ==
  store_event_from(0, state, FALSE, items, sqs_cached,
                   new_item(customer_id, event_id, payload, status), outs, 0)

\* EventStorageService.get_event: the item, its payload parsed, or Absent
get_event(state, items, customer_id, event_id, outcome) ==
  IF state # "ready" THEN Absent
  ELSE IF outcome # "ok" THEN Absent
  ELSE LET item == get_item(items, customer_id, event_id) IN
       IF item = Absent THEN Absent
       ELSE [item EXCEPT !.payload = json_loads(item.payload)]

\* Table.delete_item by key
delete_item(items, customer_id, event_id) ==
  { i \in items : ~(i.customer_id = customer_id /\ i.event_id = event_id) }

\* delete_event without the existence check before delete_item
EventStorage_delete_event_unchecked(state, items, customer_id, event_id, get_outcome, delete_outcome) ==
  IF state # "ready" THEN [result |-> FALSE, items |-> items]
  ELSE IF delete_outcome # "ok" THEN [result |-> FALSE, items |-> items]
  ELSE [result |-> TRUE, items |-> delete_item(items, customer_id, event_id)]

\* EventStorageService.delete_event: [result, items]
EventStorage_delete_event(state, items, customer_id, event_id, get_outcome, delete_outcome) ==
  IF state # "ready" THEN [result |-> FALSE, items |-> items]
  ELSE IF get_event(state, items, customer_id, event_id, get_outcome) = Absent
  THEN [result |-> FALSE, items |-> items]
  ELSE IF delete_outcome # "ok" THEN [result |-> FALSE, items |-> items]
  ELSE [result |-> TRUE, items |-> delete_item(items, customer_id, event_id)]

\* event_type filters of the inbox list operation (None: no filter)
EventTypeFilters == {None, "order.created"}

\* query_events as a scan with the event_type filter only
query_events_unscoped(state, items, customer_id, event_type, outcome) ==
  IF state # "ready" THEN {}
  ELSE IF outcome # "ok" THEN {}
  ELSE { [i EXCEPT !.payload = json_loads(i.payload)] :
           i \in { j \in items :
                     event_type # None =>
                       DictGet(json_loads(j.payload), "event_type", None) = event_type } }

\* EventStorageService.query_events: Query on the partition key, then the
\* client-side event_type filter (requests here carry no status or time
\* filter and fewer events exist than the limit)
query_events(state, items, customer_id, event_type, outcome) ==
  IF state # "ready" THEN {}
  ELSE IF outcome # "ok" THEN {}
  ELSE { [i EXCEPT !.payload = json_loads(i.payload)] :
           i \in { j \in items :
                     /\ j.customer_id = customer_id
                     /\ (event_type # None =>
                           DictGet(json_loads(j.payload), "event_type", None) = event_type) } }

(***************************************************************************)
(* Queue publisher (SQS)                                                   *)
(***************************************************************************)
\* QueueService.sqs_client: [client, cached]; get_sqs_client builds the
\* client when none is cached or a refresh is forced, and may raise
sqs_client_property(cached, force_refresh, create_ok) ==
  IF cached /\ ~force_refresh THEN [client |-> TRUE, cached |-> TRUE]
  ELSE IF create_ok THEN [client |-> TRUE, cached |-> TRUE]
  ELSE [client |-> FALSE, cached |-> FALSE]

\* the message enqueue_event sends
new_message(customer_id, event_id, payload) ==
  [ message_id |-> event_id,
    body       |-> json_dumps([ customer_id |-> customer_id,
                                event_id    |-> event_id,
                                payload     |-> payload,
                                timestamp   |-> DictGet(payload, "timestamp", "") ]),
    visible    |-> TRUE ]

\* QueueService.enqueue_event from attempt `attempt` on:
\* [result, queue, sqs_cached, calls]
RECURSIVE enqueue_event_from(_, _, _, _, _, _, _)
enqueue_event_from(attempt, cached, force_refresh, q, message, outs, calls) ==
  LET c == sqs_client_property(cached, force_refresh, builds(outs[attempt])) IN
  IF ~c.client
  THEN [result |-> FALSE, queue |-> q, sqs_cached |-> c.cached, calls |-> calls]
  ELSE IF call(outs[attempt]) = "ok"
  THEN [result |-> TRUE, queue |-> q \cup {message}, sqs_cached |-> c.cached,
        calls |-> calls + 1]
  ELSE IF credential_error(call(outs[attempt])) /\ attempt < max_retries - 1
  THEN \* clear_aws_clients(); _needs_refresh = True; continue
       enqueue_event_from(attempt + 1, FALSE, TRUE, q, message, outs, calls + 1)
  ELSE [result |-> FALSE, queue |-> q, sqs_cached |-> c.cached, calls |-> calls + 1]

enqueue_event(url, cached, q, customer_id, event_id, payload, outs) ==
  IF url = None
  THEN [result |-> FALSE, queue |-> q, sqs_cached |-> cached, calls |-> 0]
  ELSE enqueue_event_from(0, cached, FALSE, q,
                          new_message(customer_id, event_id, payload), outs, 0)

\* QueueService.enqueue_event_local: logs and returns True
enqueue_event_local(customer_id, event_id, payload) == TRUE

(***************************************************************************)
(* HTTP requests                                                           *)
(***************************************************************************)
Kinds == {"submit", "list", "delete"}

EmptyPayload == [k \in {} |-> ""]

\* events stored by earlier runs of the service: one of each customer
StoredBefore == { new_item("cust-A", 1, [event_type |-> "order.created"], "delivered"),
                  new_item("cust-B", 2, [event_type |-> "ticket.created"], "delivered") }

\* event ids a delete request may name: the stored ones and the first new one
DeleteTargets == { i.event_id : i \in StoredBefore } \cup { Cardinality(StoredBefore) + 1 }

IdleRequest ==
  [ pc          |-> "idle",
    kind        |-> None,
    token       |-> None,
    lookup      |-> None,      \* outcome of the customer lookup
    customer_id |-> None,      \* result of the authentication dependency
    idem        |-> None,      \* Idempotency-Key header
    payload     |-> EmptyPayload,
    target      |-> NoEvent,   \* event_id path parameter of DELETE
    filter      |-> None,      \* event_type query parameter of GET
    event_id    |-> NoEvent,   \* event_id of the response body
    http        |-> 0,         \* status code of the response, 0 while in flight
    hit         |-> FALSE,     \* answered from the idempotency cache
    redis_err   |-> FALSE,     \* a cache call of this request raised
    calls       |-> {},        \* services the handler called for this request
    store_err   |-> FALSE,     \* the event store did not answer an inbox call
    after       |-> {} ]       \* requests already answered when this one arrived

Done(r) == req[r].pc = "done"

\* the response is sent: the request's inputs are no longer held
respond(request, http, event_id) ==
  [ request EXCEPT !.pc = "done", !.http = http, !.event_id = event_id,
                   !.payload = EmptyPayload, !.target = NoEvent, !.filter = None ]

\* the first position of each handler
first_pc(kind) == CASE kind = "submit" -> "check"
                    [] kind = "list"   -> "list"
                    [] kind = "delete" -> "delete"

\* A request arrives and its dependency get_customer_id_from_api_key runs.
authenticate(r, kinds, tokens, lookups, idems, payloads) ==
  /\ req[r].pc = "idle"
  /\ \A q \in Reqs : q < r => req[q].pc # "idle"
  /\ \E kind \in kinds, token \in tokens, outcome \in lookups :
     \E idem \in (IF kind = "submit" THEN idems ELSE {None}),
        payload \in (IF kind = "submit" THEN payloads ELSE {EmptyPayload}),
        target \in (IF kind = "delete" THEN DeleteTargets ELSE {NoEvent}),
        filter \in (IF kind = "list" THEN EventTypeFilters ELSE {None}) :
       LET auth == get_customer_id_from_api_key(token, customer_status, outcome)
           arrived == [ IdleRequest EXCEPT
                          !.pc = first_pc(kind), !.kind = kind, !.token = token,
                          !.lookup = IF token = "" THEN None ELSE outcome,
                          !.customer_id = auth.customer_id,
                          !.idem = idem, !.payload = payload, !.target = target,
                          !.filter = filter,
                          !.after = { q \in Reqs : Done(q) } ]
       IN
       req' = [req EXCEPT ![r] = IF auth.code = 200 THEN arrived
                                 ELSE respond(arrived, auth.code, NoEvent)]
  /\ UNCHANGED << customer_status, listed, event_table, table_state,
                  sqs_client_cached, sqs_event_queue_url, queue, idem_redis,
                  idem_cache, next_uuid, acted_for, deleted_log >>
  /\ UNCHANGED rate_vars
  /\ UNCHANGED worker_vars
  /\ UNCHANGED unit_vars

\* submit_event's idempotency lookup without the early return of
\* events.py:66: a request that found a cached response goes on to store
submit_event_check_no_return(r) ==
  /\ req[r].pc = "check"
  /\ \E outcome \in RedisOutcomes :
       LET key == req[r].idem
           cached_response ==
             IF key = None THEN Absent
             ELSE get_cached_response(idem_redis, idem_cache, key, outcome)
           raised == key # None /\ idem_redis /\ outcome = "raises"
       IN
       req' = [req EXCEPT ![r] =
                 [@ EXCEPT !.pc = "store", !.redis_err = raised,
                           !.hit = (cached_response # Absent)]]
  /\ UNCHANGED << customer_status, listed, event_table, table_state,
                  sqs_client_cached, sqs_event_queue_url, queue, idem_redis,
                  idem_cache, next_uuid, acted_for, deleted_log >>
  /\ UNCHANGED rate_vars
  /\ UNCHANGED worker_vars
  /\ UNCHANGED unit_vars

\* submit_event, events.py:60-66: the idempotency lookup
submit_event_check(r) ==
  /\ req[r].pc = "check"
  /\ \E outcome \in RedisOutcomes :
       LET key == req[r].idem
           cached_response ==
             IF key = None THEN Absent
             ELSE get_cached_response(idem_redis, idem_cache, key, outcome)
           raised == key # None /\ idem_redis /\ outcome = "raises"
       IN
       req' = [req EXCEPT ![r] =
                 IF cached_response # Absent
                 THEN [ respond(@, 202, cached_response.response.event_id.v)
                          EXCEPT !.hit = TRUE ]
                 ELSE [@ EXCEPT !.pc = "store", !.redis_err = raised]]
  /\ UNCHANGED << customer_status, listed, event_table, table_state,
                  sqs_client_cached, sqs_event_queue_url, queue, idem_redis,
                  idem_cache, next_uuid, acted_for, deleted_log >>
  /\ UNCHANGED rate_vars
  /\ UNCHANGED worker_vars
  /\ UNCHANGED unit_vars

\* submit_event, events.py:68-79: uuid4 and store_event; a failed store is
\* only logged
submit_event_store(r) ==
  /\ req[r].pc = "store"
  /\ \E outs \in Scenarios :
       LET event_id == next_uuid + 1
           stored == store_event(table_state, event_table, sqs_client_cached,
                                 req[r].customer_id, event_id, req[r].payload,
                                 "pending", outs)
       IN
       /\ next_uuid' = event_id
       /\ event_table' = stored.items
       /\ table_state' = stored.table_state
       /\ sqs_client_cached' = stored.sqs_cached
       /\ acted_for' = IF stored.result THEN acted_for \cup {r} ELSE acted_for
       /\ req' = [req EXCEPT ![r] = [@ EXCEPT !.pc = "enqueue", !.event_id = event_id,
                                                !.calls = @ \cup {"store_event"}]]
  /\ UNCHANGED << customer_status, listed, sqs_event_queue_url, queue,
                  idem_redis, idem_cache, deleted_log >>
  /\ UNCHANGED rate_vars
  /\ UNCHANGED worker_vars
  /\ UNCHANGED unit_vars

\* the handler going on to build and cache the response although the
\* message was not published
enqueue_failed_accepted(request) == [request EXCEPT !.pc = "respond"]

\* submit_event, events.py:88-93: enqueue_event returned false, the handler
\* raises HTTPException 500 and nothing after it runs
enqueue_failed(request) == respond(request, 500, NoEvent)

\* submit_event, events.py:81-101: publish to the queue, or local mode
submit_event_enqueue(r) ==
  /\ req[r].pc = "enqueue"
  /\ \E check_ok \in BOOLEAN, outs \in Scenarios :
       LET client == sqs_client_property(sqs_client_cached, FALSE, check_ok) IN
       IF client.client /\ sqs_event_queue_url # None
       THEN LET enqueued == enqueue_event(sqs_event_queue_url, client.cached, queue,
                                          req[r].customer_id, req[r].event_id,
                                          req[r].payload, outs)
            IN
            /\ queue' = enqueued.queue
            /\ sqs_client_cached' = enqueued.sqs_cached
            /\ acted_for' = IF enqueued.result THEN acted_for \cup {r} ELSE acted_for
            /\ req' = [req EXCEPT ![r] =
                         IF enqueued.result
                         THEN [@ EXCEPT !.pc = "respond", !.payload = EmptyPayload,
                                        !.calls = @ \cup {"enqueue_event"}]
                         ELSE [ enqueue_failed(@)
                                  EXCEPT !.calls = @ \cup {"enqueue_event"} ]]
       ELSE /\ enqueue_event_local(req[r].customer_id, req[r].event_id, req[r].payload)
            /\ queue' = queue
            /\ sqs_client_cached' = client.cached
            /\ acted_for' = acted_for
            /\ req' = [req EXCEPT ![r] =
                         [@ EXCEPT !.pc = "respond", !.payload = EmptyPayload,
                                   !.calls = @ \cup {"enqueue_event_local"}]]
  /\ UNCHANGED << customer_status, listed, event_table, table_state,
                  sqs_event_queue_url, idem_redis, idem_cache, next_uuid,
                  deleted_log >>
  /\ UNCHANGED rate_vars
  /\ UNCHANGED worker_vars
  /\ UNCHANGED unit_vars

\* submit_event, events.py:103-120: build the response, cache it under the
\* idempotency key, answer 202
submit_event_respond(r) ==
  /\ req[r].pc = "respond"
  /\ \E outcome \in RedisOutcomes :
       LET response == EventResponse(req[r].event_id)
           key == req[r].idem
           raised == /\ key # None /\ idem_redis /\ outcome = "raises"
                     /\ json_serializable(model_dump(response))
       IN
       /\ idem_cache' = IF key = None THEN idem_cache
                        ELSE cache_response(idem_redis, idem_cache, key, req[r].event_id,
                                            model_dump(response), outcome)
       /\ req' = [req EXCEPT ![r] =
                    [ respond(@, 202, response.event_id.v)
                        EXCEPT !.redis_err = @ \/ raised,
                               !.calls = IF key = None THEN @
                                         ELSE @ \cup {"cache_response"} ]]
  /\ UNCHANGED << customer_status, listed, event_table, table_state,
                  sqs_client_cached, sqs_event_queue_url, queue, idem_redis,
                  next_uuid, acted_for, deleted_log >>
  /\ UNCHANGED rate_vars
  /\ UNCHANGED worker_vars
  /\ UNCHANGED unit_vars

\* inbox.get_events: list the caller's events
get_events(r) ==
  /\ req[r].pc = "list"
  /\ \E init_ok \in BOOLEAN, outcome \in {"ok", "other_err"} :
       LET table == table_property(table_state, FALSE, init_ok)
           events == query_events(table, event_table, req[r].customer_id,
                                  req[r].filter, outcome)
       IN
       /\ table_state' = table
       /\ listed' = [listed EXCEPT ![r] = events]
       /\ req' = [req EXCEPT ![r] =
                    [ respond(@, 200, NoEvent)
                        EXCEPT !.store_err = (table # "ready" \/ outcome # "ok") ]]
  /\ UNCHANGED << customer_status, event_table, sqs_client_cached,
                  sqs_event_queue_url, queue, idem_redis, idem_cache, next_uuid,
                  acted_for, deleted_log >>
  /\ UNCHANGED rate_vars
  /\ UNCHANGED worker_vars
  /\ UNCHANGED unit_vars

\* inbox.delete_event: delete one of the caller's events
inbox_delete_event(r) ==
  /\ req[r].pc = "delete"
  /\ \E init_ok \in BOOLEAN, get_outcome \in {"ok", "other_err"},
        delete_outcome \in {"ok", "other_err"} :
       LET table == table_property(table_state, FALSE, init_ok)
           deleted == EventStorage_delete_event(table, event_table, req[r].customer_id,
                                                req[r].target, get_outcome, delete_outcome)
       IN
       /\ table_state' = table
       /\ event_table' = deleted.items
       /\ deleted_log' = deleted_log \cup
                           { [by |-> req[r].customer_id, item |-> i] :
                               i \in event_table \ deleted.items }
       /\ acted_for' = IF deleted.items # event_table THEN acted_for \cup {r}
                       ELSE acted_for
       /\ req' = [req EXCEPT ![r] =
                    [ respond(@, IF deleted.result THEN 204 ELSE 404, NoEvent)
                        EXCEPT !.store_err = \/ table # "ready"
                                             \/ get_outcome # "ok"
                                             \/ delete_outcome # "ok" ]]
  /\ UNCHANGED << customer_status, listed, sqs_client_cached, sqs_event_queue_url,
                  queue, idem_redis, idem_cache, next_uuid >>
  /\ UNCHANGED rate_vars
  /\ UNCHANGED worker_vars
  /\ UNCHANGED unit_vars

\* CustomerService.update_customer_status, as the management CLI's
\* disable / enable subcommands call it
update_customer_status(customer_id, status) ==
  /\ customer_status[customer_id] # status
  /\ customer_status' = [customer_status EXCEPT ![customer_id] = status]
  /\ UNCHANGED << req, listed, event_table, table_state, sqs_client_cached,
                  sqs_event_queue_url, queue, idem_redis, idem_cache, next_uuid,
                  acted_for, deleted_log >>
  /\ UNCHANGED rate_vars
  /\ UNCHANGED worker_vars
  /\ UNCHANGED unit_vars

(***************************************************************************)
(* Rate limiter (core/rate_limiter.py)                                     *)
(***************************************************************************)
\* passes through the middleware in one behaviour
MaxCalls == 3
\* largest settings.rate_limit_per_second explored (1000 when not configured)
MaxRateLimit == 2
\* largest settings.rate_limit_window_seconds explored (1 when not configured)
MaxWindow == 2
\* the clock runs from 0 to MaxTime seconds
MaxTime == 2

Calls == 1..MaxCalls

\* Optional[int]: None is the empty set, n is {n}
NoInt == {}
SomeInt(n) == {n}
\* Python truthiness of an Optional[int]
truthy(v) == \E n \in v : n # 0

\* request paths: one the middleware skips, one it limits
Paths == {"/health", "/api/v1/events"}
skip_paths == {"/health", "/docs", "/openapi.json", "/"}

\* Authorization headers, as the chunks of their text
AuthHeaders == { << >>, <<"Bearer ", "key-A">>, <<"Bearer ", "key-B">>,
                 <<"Basic ", "key-A">> }
startswith(header, prefix) == Len(header) > 0 /\ header[1] = prefix
\* auth_header.replace("Bearer ", "").strip()
bearer_token(header) ==
  LET rest == SelectSeq(header, LAMBDA chunk : chunk # "Bearer ") IN
  IF Len(rest) = 0 THEN "" ELSE rest[1]

ApiKeys == { bearer_token(h) : h \in { g \in AuthHeaders : startswith(g, "Bearer ") } }

\* keys "rate_limit:<api_key>:<window_start>"
RateKeys == ApiKeys \X (0..MaxTime)
NoTtl == -1
NoEntry == [count |-> 0, ttl_at |-> NoTtl]

\* Redis drops a key whose time to live has run out; during the second in
\* which it runs out (edge) the key may or may not be gone already
expired(entry, time, edge) ==
  /\ entry.ttl_at # NoTtl
  /\ (time > entry.ttl_at \/ (time = entry.ttl_at /\ edge))
redis_purge(store, key, time, edge) ==
  IF expired(store[key], time, edge) THEN [store EXCEPT ![key] = NoEntry] ELSE store

\* GET: None for a missing key
redis_get(store, key) ==
  IF store[key].count = 0 THEN NoInt ELSE SomeInt(store[key].count)
\* INCR: a missing key counts from 0 and has no time to live
redis_incr(store, key) == [store EXCEPT ![key].count = @ + 1]
\* EXPIRE
redis_expire(store, key, time, seconds) == [store EXCEPT ![key].ttl_at = time + seconds]

IdleCall ==
  [ pc            |-> "idle",
    api_key       |-> "",
    window_start  |-> 0,
    current_count |-> 0,
    checked       |-> FALSE,   \* check_rate_limit read the counter
    redis_err     |-> FALSE,   \* a Redis call of this pass raised
    is_allowed    |-> TRUE,
    retry_after   |-> NoInt,
    http          |-> 0,       \* 429, or 200 for a request passed to call_next
    retry_after_header |-> NoInt,
    after         |-> {} ]     \* passes already finished when this one began

CallDone(c) == rl_call[c].pc = "done"

\* dispatch's tail: 429 with Retry-After for a rejected request, or call_next
dispatch_result(call_record, is_allowed, retry_after) ==
  [ call_record EXCEPT
      !.pc = "done", !.is_allowed = is_allowed, !.retry_after = retry_after,
      !.http = IF is_allowed THEN 200 ELSE 429,
      !.retry_after_header = IF ~is_allowed /\ truthy(retry_after)
                             THEN retry_after ELSE NoInt ]

\* the comparison with > in place of >=
limit_exceeded_strict(current_count, limit) == current_count > limit

\* the comparison of rate_limiter.py:74
limit_exceeded(current_count, limit) == current_count >= limit

\* the limit of the customer the API key belongs to
enforced_limit_of_customer(config, stored, api_key) ==
  LET owners == { c \in Customers : api_key_of[c] = api_key } IN
  IF owners = {} THEN config.rate_limit_per_second
  ELSE stored[CHOOSE c \in owners : TRUE]

\* the limit compared with, rate_limiter.py:74: the process's setting,
\* whatever the customers table holds for the caller
enforced_limit(config, stored, api_key) == config.rate_limit_per_second

\* retry_after of a rejected call, rate_limiter.py:75
retry_after_at(time, window_seconds) == window_seconds - (time % window_seconds)

\* an except branch that refuses the request
check_rate_limit_except_closed == [is_allowed |-> FALSE, retry_after |-> SomeInt(1)]

\* the except branch of check_rate_limit (rate_limiter.py:85-88): the error
\* is logged and the request allowed
check_rate_limit_except == [is_allowed |-> TRUE, retry_after |-> NoInt]

\* dispatch up to check_rate_limit's read of the counter (rate_limiter.py:
\* 101-113, 57-70)
dispatch_get(c) ==
  /\ rl_call[c].pc = "idle"
  /\ \A d \in Calls : d < c => rl_call[d].pc # "idle"
  /\ \E path \in Paths, header \in AuthHeaders, outcome \in RedisOutcomes,
        edge \in BOOLEAN :
       LET began == [ IdleCall EXCEPT !.after = { d \in Calls : CallDone(d) } ] IN
       IF path \in skip_paths \/ ~startswith(header, "Bearer ")
       THEN /\ rl_call' = [rl_call EXCEPT ![c] = dispatch_result(began, TRUE, NoInt)]
            /\ rl_store' = rl_store
       ELSE LET api_key == bearer_token(header)
                window_start == now \div settings.rate_limit_window_seconds
                key == << api_key, window_start >>
                keyed == [ began EXCEPT !.api_key = api_key,
                                        !.window_start = window_start ]
                purged == redis_purge(rl_store, key, now, edge)
                got == redis_get(purged, key)
                current_count == IF got = NoInt THEN 0 ELSE CHOOSE n \in got : TRUE
            IN
            IF ~rl_redis
            THEN /\ rl_call' = [rl_call EXCEPT ![c] = dispatch_result(keyed, TRUE, NoInt)]
                 /\ rl_store' = rl_store
            ELSE IF outcome = "raises"
            THEN /\ rl_call' = [rl_call EXCEPT ![c] =
                                  dispatch_result([keyed EXCEPT !.redis_err = TRUE],
                                                  check_rate_limit_except.is_allowed,
                                                  check_rate_limit_except.retry_after)]
                 /\ rl_store' = rl_store
            ELSE /\ rl_call' = [rl_call EXCEPT ![c] =
                                  [ keyed EXCEPT !.pc = "decide", !.checked = TRUE,
                                                 !.current_count = current_count ]]
                 /\ rl_store' = purged
  /\ UNCHANGED << now, settings, rl_redis, customer_rate_limit >>
  /\ UNCHANGED ingest_vars
  /\ UNCHANGED worker_vars
  /\ UNCHANGED unit_vars

\* check_rate_limit from the comparison on (rate_limiter.py:74-88) and the
\* rest of dispatch (rate_limiter.py:115-126)
dispatch_decide(c) ==
  /\ rl_call[c].pc = "decide"
  /\ \E incr_outcome \in RedisOutcomes, expire_outcome \in RedisOutcomes,
        edge \in BOOLEAN :
       LET key == << rl_call[c].api_key, rl_call[c].window_start >>
           window_seconds == settings.rate_limit_window_seconds
           purged == redis_purge(rl_store, key, now, edge)
           incremented == redis_incr(purged, key)
       IN
       IF limit_exceeded(rl_call[c].current_count,
                         enforced_limit(settings, customer_rate_limit,
                                        rl_call[c].api_key))
       THEN /\ rl_call' = [rl_call EXCEPT ![c] =
                             dispatch_result(@, FALSE,
                                             SomeInt(retry_after_at(now, window_seconds)))]
            /\ rl_store' = rl_store
       ELSE IF incr_outcome = "raises"
       THEN /\ rl_call' = [rl_call EXCEPT ![c] =
                             dispatch_result([@ EXCEPT !.redis_err = TRUE],
                                             check_rate_limit_except.is_allowed,
                                             check_rate_limit_except.retry_after)]
            /\ rl_store' = rl_store
       ELSE IF expire_outcome = "raises"
       THEN /\ rl_call' = [rl_call EXCEPT ![c] =
                             dispatch_result([@ EXCEPT !.redis_err = TRUE],
                                             check_rate_limit_except.is_allowed,
                                             check_rate_limit_except.retry_after)]
            /\ rl_store' = incremented
       ELSE /\ rl_call' = [rl_call EXCEPT ![c] = dispatch_result(@, TRUE, NoInt)]
            /\ rl_store' = redis_expire(incremented, key, now, window_seconds)
  /\ UNCHANGED << now, settings, rl_redis, customer_rate_limit >>
  /\ UNCHANGED ingest_vars
  /\ UNCHANGED worker_vars
  /\ UNCHANGED unit_vars

\* a second passes
Tick ==
  /\ now < MaxTime
  /\ now' = now + 1
  /\ UNCHANGED << settings, rl_redis, rl_store, rl_call, customer_rate_limit >>
  /\ UNCHANGED ingest_vars
  /\ UNCHANGED worker_vars
  /\ UNCHANGED unit_vars

\* the limiter before any request, with the scaled default settings
\* create_customer's default for the stored column (customer_service.py:160)
default_rate_limit_per_second == 1000

RateLimiterUnused ==
  /\ now = 0
  /\ settings = [rate_limit_per_second |-> MaxRateLimit, rate_limit_window_seconds |-> 1]
  /\ rl_redis = TRUE
  /\ customer_rate_limit = [c \in Customers |-> default_rate_limit_per_second]
  /\ rl_store = [k \in RateKeys |-> NoEntry]
  /\ rl_call = [c \in Calls |-> IdleCall]

(***************************************************************************)
(* Subscriptions, matching and webhook delivery                            *)
(***************************************************************************)
NoSelector == [k \in {} |-> ""]

\* the subscriptions table: two workflows of cust-A (one selecting
\* order.created, one without selector, one disabled), none of cust-B
Subscriptions ==
  { [ workflow_id |-> "wf-1", customer_id |-> "cust-A", status |-> "active",
      event_selector |-> [type |-> "event_type", value |-> "order.created"] ],
    [ workflow_id |-> "wf-2", customer_id |-> "cust-A", status |-> "active",
      event_selector |-> NoSelector ],
    [ workflow_id |-> "wf-3", customer_id |-> "cust-A", status |-> "disabled",
      event_selector |-> NoSelector ] }

\* an event_selector column holding a JSON string instead of an object (the
\* column is declared JSON and takes any JSON value)
TextSelector == [text |-> "order.created"]

\* the same table with one more active workflow of cust-A, whose selector is
\* such a string
SubscriptionsWithTextSelector ==
  Subscriptions \cup
    { [ workflow_id |-> "wf-4", customer_id |-> "cust-A", status |-> "active",
        event_selector |-> TextSelector ] }

\* the table without the workflow that takes every event: cust-A's only
\* active workflow selects order.created
SubscriptionsSelective ==
  { sub \in Subscriptions : sub.workflow_id # "wf-2" }

\* a query without the status filter
get_subscriptions_any_status(table, customer_id, outcome) ==
  IF outcome # "ok" THEN {}
  ELSE { sub \in table : sub.customer_id = customer_id }

\* SubscriptionService.get_subscriptions: the customer's active
\* subscriptions, none when the query raises
get_subscriptions(table, customer_id, outcome) ==
  IF outcome # "ok" THEN {}
  ELSE { sub \in table : sub.customer_id = customer_id /\ sub.status = "active" }

\* JSON values of payload fields and selector operands, tagged with their
\* Python type; v is the text str() gives, as a sequence of characters
JStr(chars) == [t |-> "str", v |-> chars]
JInt0 == [t |-> "int", v |-> <<"0">>]
JInt10 == [t |-> "int", v |-> <<"1", "0">>]
JFalse == [t |-> "bool", v |-> <<"F", "a", "l", "s", "e">>]
\* None: the value of a JSON null and what dict.get returns for a missing key
JNull == [t |-> "NoneType", v |-> <<"N", "o", "n", "e">>]

\* bool(x)
py_truthy(x) ==
  /\ x # JNull
  /\ x # JStr(<< >>)
  /\ x # JInt0
  /\ x # JFalse
\* str(x)
py_str(x) == x.v
\* x == y: 0 == False in Python
py_eq(x, y) == x = y \/ ({x, y} = {JInt0, JFalse})
\* needle in text, for two strings
py_in(needle, text) ==
  \E a \in 1..(Len(text) + 1), b \in 0..Len(text) : SubSeq(text, a, b) = needle

\* EventMatcher._evaluate_custom: [raised, result]
_evaluate_custom(payload, function) ==
  LET field == DictGet(function, "field", None)
      operator == DictGet(function, "operator", "equals")
      value == DictGet(function, "value", JNull)
      field_value == DictGet(payload, field, JNull)
      returns(b) == [raised |-> FALSE, result |-> b]
  IN
  IF field = None \/ field = "" THEN returns(FALSE)
  ELSE IF operator = "equals" THEN returns(py_eq(field_value, value))
  ELSE IF operator = "not_equals" THEN returns(~py_eq(field_value, value))
  ELSE IF operator = "contains"
  THEN IF ~py_truthy(field_value) THEN returns(FALSE)
       \* `value in str(...)` raises TypeError unless value is a string
       ELSE IF value.t # "str" THEN [raised |-> TRUE, result |-> FALSE]
       ELSE returns(py_in(value.v, py_str(field_value)))
  ELSE IF operator = "exists" THEN returns(field_value # JNull)
  ELSE returns(FALSE)

\* a falsy string operand: None or ""
falsy(text) == text = None \/ text = ""

\* EventMatcher._matches_subscription (selectors of type jsonpath are not
\* among the inputs explored)
_matches_subscription(event_payload, subscription) ==
  LET event_selector == subscription.event_selector
      selector_type == DictGet(event_selector, "type", "event_type")
  IN
  IF event_selector = NoSelector THEN TRUE
  ELSE IF selector_type = "event_type"
  THEN LET required_event_type == DictGet(event_selector, "value", None)
           event_type == DictGet(event_payload, "event_type", None)
       IN
       IF ~falsy(required_event_type) /\ ~falsy(event_type)
       THEN event_type = required_event_type ELSE FALSE
  ELSE IF selector_type = "custom"
  THEN IF "function" \notin DOMAIN event_selector THEN FALSE
       ELSE LET evaluated == _evaluate_custom(event_payload, event_selector["function"]) IN
            IF evaluated.raised THEN FALSE ELSE evaluated.result
  ELSE FALSE

\* event_selector.get raises AttributeError when the selector is a non-empty
\* value that is not an object
_matches_subscription_raises(subscription) ==
  "text" \in DOMAIN subscription.event_selector
    /\ ~falsy(subscription.event_selector["text"])

\* match_event_to_subscriptions raises when one of the subscriptions does
match_event_to_subscriptions_raises(subscriptions) ==
  \E i \in 1..Len(subscriptions) : _matches_subscription_raises(subscriptions[i])

\* a matcher that returns at its first match
match_event_to_subscriptions_first(event_payload, subscriptions) ==
  LET matching == SelectSeq(subscriptions,
                            LAMBDA sub : _matches_subscription(event_payload, sub))
  IN IF matching = << >> THEN << >> ELSE << Head(matching) >>

\* EventMatcher.match_event_to_subscriptions: the subscriptions of the list
\* that match, appended in the order of the list
match_event_to_subscriptions(event_payload, subscriptions) ==
  SelectSeq(subscriptions, LAMBDA sub : _matches_subscription(event_payload, sub))

\* settings.webhook_max_retries
webhook_max_retries == 5

\* what a target answers to the attempts of one delivery: one status code
\* to the first attempt, one to all later ones.  Accepted at once; refused
\* for good (404, 410); a server error and then accepted, or then refused;
\* rate limited throughout
WebhookScenarios ==
  { [ attempt \in 1..webhook_max_retries |->
        IF attempt = 1 THEN codes[1] ELSE codes[2] ] :
      codes \in { <<200, 200>>, <<404, 200>>, <<410, 200>>, <<500, 200>>,
                  <<500, 404>>, <<429, 429>> } }

\* what client.post does when no response arrives: httpx.TimeoutException,
\* or another httpx.RequestError
TimeoutException == -1
RequestError == -2

\* WebhookService.deliver_webhook: [success, error].  The argument is the
\* status code of the response, or the exception client.post raised.
deliver_webhook(status_code) ==
  IF status_code = TimeoutException THEN [success |-> FALSE, error |-> "Timeout"]
  ELSE IF status_code = RequestError THEN [success |-> FALSE, error |-> "Request error:"]
  ELSE IF status_code = 200 \/ status_code = 201
  THEN [success |-> TRUE, error |-> "None"]
  ELSE IF status_code = 410 THEN [success |-> FALSE, error |-> "410 Gone"]
  ELSE IF status_code >= 400 /\ status_code < 500
  THEN [success |-> FALSE, error |-> "Client error:"]
  ELSE [success |-> FALSE, error |-> "Server error:"]

\* WebhookService.deliver_with_retry after `attempts` attempts:
\* [success, attempts]
RECURSIVE deliver_with_retry_from(_, _)
deliver_with_retry_from(attempts, responses) ==
  IF attempts >= webhook_max_retries
  THEN [success |-> FALSE, attempts |-> attempts]
  ELSE LET made == attempts + 1
           delivery == deliver_webhook(responses[made])
       IN
       IF delivery.success THEN [success |-> TRUE, attempts |-> made]
       ELSE IF delivery.error = "Client error:" /\ responses[made] # 429
       THEN [success |-> FALSE, attempts |-> made]
       ELSE IF delivery.error = "410 Gone"
       THEN [success |-> FALSE, attempts |-> made]
       ELSE deliver_with_retry_from(made, responses)

deliver_with_retry(responses) == deliver_with_retry_from(0, responses)

\* delivery_attempts=None
NoAttempts == -1

\* EventStorageService.update_event_status: UpdateItem sets the attributes
\* on the item with that key, creating the item when there is none
update_event_status(state, items, customer_id, event_id, status, delivery_attempts, outcome) ==
  IF state # "ready" THEN items
  ELSE IF outcome # "ok" THEN items
  ELSE LET item == get_item(items, customer_id, event_id) IN
       IF item = Absent
       THEN items \cup
              { IF delivery_attempts = NoAttempts
                THEN [ customer_id |-> customer_id, event_id |-> event_id,
                       status |-> status ]
                ELSE [ customer_id |-> customer_id, event_id |-> event_id,
                       status |-> status, delivery_attempts |-> delivery_attempts ] }
       ELSE (items \ {item}) \cup
              { [item EXCEPT !.status = status,
                             !.delivery_attempts = IF delivery_attempts = NoAttempts
                                                   THEN @ ELSE delivery_attempts] }

(***************************************************************************)
(* Event-processing worker (workers/event_processor.py, scripts/worker.py, *)
(* lambda_worker.py)                                                       *)
(***************************************************************************)
\* the orders in which a query may return the rows of a set
Orderings(S) ==
  { order \in [1..Cardinality(S) -> S] :
      \A i, j \in 1..Cardinality(S) : i # j => order[i] # order[j] }

\* the worker process's own EventStorageService, its table initialised
worker_table == table_property("uninit", FALSE, TRUE)

\* a deliver_with_retry call left the subscription refused for good: its
\* last answer was 410 or a 4xx other than 429
non_retryable(status_code) ==
  status_code >= 400 /\ status_code < 500 /\ status_code # 429

\* process_event's delivery loop from the i-th matching subscription on:
\* [result, items, calls]
\* a status that says delivered once any delivery of the run has succeeded
delivery_status_of_run(delivery_success, success) ==
  IF delivery_success THEN "delivered" ELSE "failed"

\* the status process_event writes after a delivery: delivered when this
\* delivery succeeded, failed when it did not (`delivery_success` is the
\* run's flag, which the choice does not read)
delivery_status(delivery_success, success) ==
  IF success THEN "delivered" ELSE "failed"

RECURSIVE deliver_each(_, _, _, _, _, _, _, _)
deliver_each(items, customer_id, event_id, matching, i, responses_of, delivery_success, calls) ==
  IF i > Len(matching)
  THEN [result |-> delivery_success, items |-> items, calls |-> calls]
  ELSE LET responses == responses_of[matching[i].workflow_id]
           delivery == deliver_with_retry(responses)
           delivery_attempts == i
           updated == update_event_status(worker_table, items, customer_id, event_id,
                                          delivery_status(delivery_success \/ delivery.success,
                                                          delivery.success),
                                          delivery_attempts, "ok")
           made == [ workflow_id |-> matching[i].workflow_id, event_id |-> event_id,
                     success |-> delivery.success, attempts |-> delivery.attempts,
                     status_code |-> responses[delivery.attempts] ]
       IN
       deliver_each(updated, customer_id, event_id, matching, i + 1, responses_of,
                    delivery_success \/ delivery.success, Append(calls, made))

\* an unmatched path that writes the status and reports failure
mark_unmatched_failing(items, customer_id, event_id) ==
  [ result |-> FALSE,
    items  |-> update_event_status(worker_table, items, customer_id, event_id,
                                   "unmatched", NoAttempts, "ok"),
    calls  |-> << >>, raised |-> FALSE ]

\* process_event's unmatched path: the status is set to unmatched and the
\* run returns True without a delivery call
mark_unmatched(items, customer_id, event_id) ==
  [ result |-> TRUE,
    items  |-> update_event_status(worker_table, items, customer_id, event_id,
                                   "unmatched", NoAttempts, "ok"),
    calls  |-> << >>, raised |-> FALSE ]

\* an outer handler that reports success
process_event_except_true == TRUE

\* the value process_event returns when an exception reaches its outer
\* handler
process_event_except == FALSE

\* EventProcessor.process_event: [result, items, calls, raised].
\* `subscriptions` is the list get_subscriptions returned; `raised` tells
\* that an exception reached the outer handler.  (The e-mail sent for
\* jira.ticket.urgent events touches none of the modelled state.)
process_event(items, customer_id, event_id, payload, subscriptions, responses_of) ==
  LET unmatched == mark_unmatched(items, customer_id, event_id)
      matching_subscriptions == match_event_to_subscriptions(payload, subscriptions)
  IN
  IF subscriptions = << >> THEN unmatched
  ELSE IF match_event_to_subscriptions_raises(subscriptions)
  THEN [ result |-> process_event_except, items |-> items, calls |-> << >>,
         raised |-> TRUE ]
  ELSE IF matching_subscriptions = << >> THEN unmatched
  ELSE LET delivered == deliver_each(items, customer_id, event_id,
                                     matching_subscriptions, 1, responses_of,
                                     FALSE, << >>)
       IN [ result |-> delivered.result, items |-> delivered.items,
            calls |-> delivered.calls, raised |-> FALSE ]

\* the message body, when the record carries one under the key "body"
has_body(sqs_record) == "body" \in DOMAIN sqs_record

\* the fields process_message reads from the record: [valid, customer_id,
\* event_id, payload]
message_fields(sqs_record) ==
  IF ~has_body(sqs_record)
  THEN [valid |-> FALSE, customer_id |-> None, event_id |-> NoEvent,
        payload |-> EmptyPayload]
  ELSE LET body == json_loads(sqs_record["body"])
           customer_id == DictGet(body, "customer_id", None)
           event_id == DictGet(body, "event_id", NoEvent)
       IN
       [ valid |-> customer_id # None /\ event_id # NoEvent /\ "payload" \in DOMAIN body,
         customer_id |-> customer_id, event_id |-> event_id,
         payload |-> DictGet(body, "payload", EmptyPayload) ]

\* EventProcessor.process_message: [result, items, calls, raised]
process_message(sqs_record, items, subscriptions, responses_of) ==
  LET fields == message_fields(sqs_record) IN
  IF ~fields.valid
  THEN [result |-> FALSE, items |-> items, calls |-> << >>, raised |-> FALSE]
  ELSE process_event(items, fields.customer_id, fields.event_id, fields.payload,
                     subscriptions, responses_of)

\* no process_event run yet
NoRun ==
  [ event_id |-> NoEvent, customer_id |-> None, payload |-> EmptyPayload,
    subscriptions |-> << >>, loading |-> "ok", calls |-> << >>,
    result |-> FALSE, raised |-> FALSE, refused |-> {} ]

\* the history after a process_event run: what it was given, how loading
\* the subscriptions went, the deliver_with_retry calls it made, what it
\* returned and whether it raised
logged(log, fields, subscriptions, loading, processed) ==
  LET calls == processed.calls IN
  [ event_id |-> fields.event_id, customer_id |-> fields.customer_id,
    payload |-> fields.payload,
    subscriptions |-> subscriptions, loading |-> loading, calls |-> calls,
    result |-> processed.result, raised |-> processed.raised,
    refused |-> log.refused \cup
                  { << calls[i].event_id, calls[i].workflow_id >> :
                      i \in { k \in 1..Len(calls) :
                                ~calls[k].success /\ non_retryable(calls[k].status_code) } } ]

\* a message as sqs_client.receive_message returns it
received_message(m) ==
  [ MessageId |-> m.message_id, ReceiptHandle |-> m.message_id, Body |-> m.body ]

\* a message as the Lambda event-source mapping hands it to the handler
event_record(m) ==
  [ messageId |-> m.message_id, receiptHandle |-> m.message_id, body |-> m.body ]

\* the message id of a record of either shape
record_id(sqs_record) ==
  IF "messageId" \in DOMAIN sqs_record THEN sqs_record["messageId"]
  ELSE sqs_record["MessageId"]

\* MaxNumberOfMessages of the standalone worker's receive_message
MaxNumberOfMessages == 10

\* the worker between batches.  `handled` is history: the records of the
\* batch passed to process_message so far, each with the value returned
IdleWorker == [ batch |-> << >>, invoked |-> {}, failures |-> {}, handled |-> << >> ]

\* the history after process_message returned `result` for the record
handled_after(handled, sqs_record, result) ==
  Append(handled, [ message_id |-> record_id(sqs_record), result |-> result ])

\* the messages a receive takes become invisible for the visibility timeout
take(q, S) == { IF m \in S THEN [m EXCEPT !.visible = FALSE] ELSE m : m \in q }

\* SQSWorker.process_messages, worker.py:60-71: one receive_message that
\* returns messages
SQSWorker_receive ==
  /\ worker_form = "standalone"
  /\ worker.batch = << >>
  /\ \E S \in SUBSET { m \in queue : m.visible } :
       /\ S # {} /\ Cardinality(S) <= MaxNumberOfMessages
       /\ \E order \in Orderings(S) :
            worker' = [ IdleWorker EXCEPT
                          !.batch = [i \in 1..Len(order) |-> received_message(order[i])] ]
       /\ queue' = take(queue, S)
  /\ UNCHANGED << customer_status, req, listed, event_table, table_state,
                  sqs_client_cached, sqs_event_queue_url, idem_redis, idem_cache,
                  next_uuid, acted_for, deleted_log >>
  /\ UNCHANGED rate_vars
  /\ UNCHANGED << worker_form, esm_report_failures, subscription_table, webhook_log >>
  /\ UNCHANGED unit_vars

\* the event-source mapping polls the queue and invokes lambda_worker.handler
\* with the batch
lambda_invoke ==
  /\ worker_form = "lambda"
  /\ worker.batch = << >> /\ worker.invoked = {}
  /\ \E S \in SUBSET { m \in queue : m.visible } :
       /\ S # {}
       /\ \E order \in Orderings(S) :
            worker' = [ IdleWorker EXCEPT
                          !.batch = [i \in 1..Len(order) |-> event_record(order[i])],
                          !.invoked = { m.message_id : m \in S } ]
       /\ queue' = take(queue, S)
  /\ UNCHANGED << customer_status, req, listed, event_table, table_state,
                  sqs_client_cached, sqs_event_queue_url, idem_redis, idem_cache,
                  next_uuid, acted_for, deleted_log >>
  /\ UNCHANGED rate_vars
  /\ UNCHANGED << worker_form, esm_report_failures, subscription_table, webhook_log >>
  /\ UNCHANGED unit_vars

\* a handler that reports every record
batchItemFailures_all(failures, sqs_record, success) ==
  failures \cup {record_id(sqs_record)}

\* lambda_worker.handler: the record's messageId is added to
\* batchItemFailures when process_message returned False
batchItemFailures(failures, sqs_record, success) ==
  IF success THEN failures ELSE failures \cup {record_id(sqs_record)}

\* a loop that deletes the message whatever process_message returned
deletes_message_always(success, delete_outcome) == delete_outcome = "ok"

\* SQSWorker.process_messages: delete_message is called after a success,
\* and a ClientError it raises is logged
deletes_message(success, delete_outcome) == success /\ delete_outcome = "ok"

\* one turn of the loop over the batch: worker.py:76-96 for the standalone
\* worker (delete_message after a success), lambda_worker.py:32-52 for the
\* handler (a failure goes to batchItemFailures)
worker_process_message ==
  /\ worker.batch # << >>
  /\ \E outcome \in {"ok", "raises"}, delete_outcome \in {"ok", "ClientError"} :
       LET sqs_record == Head(worker.batch)
           fields == message_fields(sqs_record)
           rows == IF fields.valid
                   THEN get_subscriptions(subscription_table, fields.customer_id, outcome)
                   ELSE {}
       IN
       \E subscriptions \in Orderings(rows) :
       \E responses_of \in
            [ { sub.workflow_id : sub \in { row \in rows :
                  _matches_subscription(fields.payload, row) } } -> WebhookScenarios ] :
         LET processed == process_message(sqs_record, event_table, subscriptions,
                                          responses_of)
         IN
         /\ webhook_log' = IF fields.valid
                           THEN logged(webhook_log, fields, subscriptions, outcome, processed)
                           ELSE webhook_log
         /\ event_table' = processed.items
         /\ IF worker_form = "standalone"
            THEN /\ queue' = IF deletes_message(processed.result, delete_outcome)
                             THEN { m \in queue : m.message_id # record_id(sqs_record) }
                             ELSE queue
                 /\ worker' = [worker EXCEPT
                                 !.batch = Tail(@),
                                 !.handled = handled_after(@, sqs_record,
                                                           processed.result)]
            ELSE /\ queue' = queue
                 /\ worker' = [worker EXCEPT
                                 !.batch = Tail(@),
                                 !.handled = handled_after(@, sqs_record,
                                                           processed.result),
                                 !.failures = batchItemFailures(@, sqs_record,
                                                                processed.result)]
  /\ UNCHANGED << customer_status, req, listed, table_state, sqs_client_cached,
                  sqs_event_queue_url, idem_redis, idem_cache, next_uuid,
                  acted_for, deleted_log >>
  /\ UNCHANGED rate_vars
  /\ UNCHANGED << worker_form, esm_report_failures, subscription_table >>
  /\ UNCHANGED unit_vars

\* the handler returns its batchItemFailures: the event-source mapping
\* deletes the messages not reported as failed (all of them when it does not
\* honour the report)
lambda_return ==
  /\ worker_form = "lambda"
  /\ worker.batch = << >> /\ worker.invoked # {}
  /\ LET kept == IF esm_report_failures THEN worker.failures ELSE {} IN
     queue' = { m \in queue : m.message_id \notin (worker.invoked \ kept) }
  /\ worker' = IdleWorker
  /\ UNCHANGED << customer_status, req, listed, event_table, table_state,
                  sqs_client_cached, sqs_event_queue_url, idem_redis, idem_cache,
                  next_uuid, acted_for, deleted_log >>
  /\ UNCHANGED rate_vars
  /\ UNCHANGED << worker_form, esm_report_failures, subscription_table, webhook_log >>
  /\ UNCHANGED unit_vars

\* the visibility timeout of a message the worker no longer holds runs out
visibility_timeout ==
  /\ \E m \in queue :
       /\ ~m.visible
       /\ m.message_id \notin worker.invoked
       /\ \A i \in 1..Len(worker.batch) : record_id(worker.batch[i]) # m.message_id
       /\ queue' = (queue \ {m}) \cup { [m EXCEPT !.visible = TRUE] }
  /\ UNCHANGED << customer_status, req, listed, event_table, table_state,
                  sqs_client_cached, sqs_event_queue_url, idem_redis, idem_cache,
                  next_uuid, acted_for, deleted_log >>
  /\ UNCHANGED rate_vars
  /\ UNCHANGED worker_vars
  /\ UNCHANGED unit_vars

\* no worker deployed yet
WorkerUnused ==
  /\ worker_form = "lambda"
  /\ esm_report_failures = TRUE
  /\ subscription_table = Subscriptions
  /\ worker = IdleWorker
  /\ webhook_log = NoRun

(***************************************************************************)
(* Calls of the matcher on its own                                         *)
(***************************************************************************)
\* payload.event_type: missing, empty, or a type name
MatchEventTypes == {None, "", "order.created", "ticket.created"}
\* payload.count: missing, null, or a value
MatchFieldValues == { Absent, JNull, JInt0, JInt10, JFalse, JStr(<< >>),
                      JStr(<<"1", "0", "0">>) }

\* the JSON object with the given event_type and count, either left out
\* when missing
payload_of(event_type, count) ==
  [ k \in ( (IF event_type = None THEN {} ELSE {"event_type"})
            \cup (IF count = Absent THEN {} ELSE {"count"}) ) |->
      IF k = "event_type" THEN event_type ELSE count ]

MatchPayloads ==
  { payload_of(event_type, count) :
      event_type \in MatchEventTypes, count \in MatchFieldValues }

\* selectors of type event_type, with and without the type and the value
EventTypeSelectors ==
  { [type |-> "event_type", value |-> "order.created"],
    [type |-> "event_type", value |-> ""],
    [type |-> "event_type"],
    [value |-> "order.created"],
    [value |-> ""] }

\* the rule of a custom selector: field, operator and value, each possibly
\* left out
rule_of(field, operator, value) ==
  [ k \in ( (IF field = None THEN {} ELSE {"field"})
            \cup (IF operator = None THEN {} ELSE {"operator"})
            \cup (IF value = Absent THEN {} ELSE {"value"}) ) |->
      IF k = "field" THEN field ELSE IF k = "operator" THEN operator ELSE value ]

CustomRules ==
  { rule_of(field, operator, value) :
      field \in {None, "count", "total"},
      operator \in {None, "exists", "contains", "regex"},
      value \in {Absent, JStr(<<"0">>), JStr(<<"1", "0">>), JStr(<< >>), JInt0} }

\* selectors of type custom: the rule under the key "function", or spread
\* in the selector itself
CustomSelectors ==
  { [type |-> "custom", function |-> rule] : rule \in CustomRules }
    \cup { [type |-> "custom", field |-> "count", operator |-> "exists"],
           [type |-> "custom"] }

MatchSelectors ==
  {NoSelector} \cup EventTypeSelectors \cup CustomSelectors
    \cup { [type |-> "regex", value |-> "order.created"] }

\* a call not yet made
matcher_call(event_payload, event_selector) ==
  [ pc |-> "called", event_payload |-> event_payload,
    subscription |-> [ workflow_id |-> "wf-1", customer_id |-> "cust-A",
                       status |-> "active", event_selector |-> event_selector ],
    result |-> FALSE ]

(***************************************************************************)
(* A deliver_with_retry call on its own, attempt by attempt                *)
(***************************************************************************)
\* settings.webhook_retry_backoff_base, webhook_retry_max_delay_seconds
webhook_retry_backoff_base == 2
webhook_retry_max_delay_seconds == 86400

\* the max_retries argument: one attempt only, or the configured number
RetryLimits == {1, 2, webhook_max_retries}

\* what the target does at each attempt
Responses == {200, 404, 410, 429, 500, TimeoutException}

\* the target answers `first` to the attempts before the k-th and `rest`
\* from the k-th on
ResponseScenarios ==
  { [ attempt \in 1..(webhook_max_retries + 1) |->
        IF attempt < k THEN first ELSE rest ] :
      k \in 1..webhook_max_retries, first \in Responses, rest \in Responses }

\* a call not yet begun
delivery_call(limit, responses) ==
  [ pc |-> "loop", max_retries |-> limit, responses |-> responses,
    attempts |-> 0, last_error |-> [error |-> "None", status_code |-> 0],
    posts |-> 0, sleeps |-> << >>, slept_last |-> FALSE,
    result |-> [success |-> FALSE, attempts |-> 0,
                error |-> [error |-> "None", status_code |-> 0]] ]

\* the loop stops after a client error other than 429 or after 410 Gone
\* (webhook_service.py:143-151), here without the exception for 429
should_break_on_429(error, status_code) ==
  error = "Client error:" \/ error = "410 Gone"

should_break(error, status_code) ==
  \/ error = "Client error:" /\ status_code # 429
  \/ error = "410 Gone"

\* the loop condition with one attempt too many
loop_continues_inclusive(attempts, limit) == attempts <= limit

\* while attempts < max_retries (webhook_service.py:134)
loop_continues(attempts, limit) == attempts < limit

\* min(base ** attempts, max_delay)
backoff_delay(attempts) ==
  IF webhook_retry_backoff_base ^ attempts < webhook_retry_max_delay_seconds
  THEN webhook_retry_backoff_base ^ attempts ELSE webhook_retry_max_delay_seconds

\* one turn of deliver_with_retry's loop, up to its return, its break or its
\* sleep (webhook_service.py:134-169)
deliver_with_retry_attempt ==
  /\ webhook_call.pc = "loop"
  /\ LET returned(success, attempts, error) ==
           [ webhook_call EXCEPT !.pc = "returned", !.attempts = attempts,
                             !.last_error = error,
                             !.posts = IF attempts > webhook_call.attempts THEN @ + 1 ELSE @,
                             !.slept_last = FALSE,
                             !.result = [success |-> success, attempts |-> attempts,
                                         error |-> error] ]
     IN
     IF ~loop_continues(webhook_call.attempts, webhook_call.max_retries)
     THEN webhook_call' = returned(FALSE, webhook_call.attempts, webhook_call.last_error)
     ELSE LET attempts == webhook_call.attempts + 1
              status_code == webhook_call.responses[attempts]
              delivered == deliver_webhook(status_code)
              last_error == [error |-> delivered.error, status_code |-> status_code]
          IN
          IF delivered.success
          THEN webhook_call' = returned(TRUE, attempts, [error |-> "None", status_code |-> 0])
          ELSE IF should_break(delivered.error, status_code)
          THEN webhook_call' = returned(FALSE, attempts, last_error)
          ELSE IF attempts < webhook_call.max_retries
          THEN webhook_call' = [ webhook_call EXCEPT
                               !.pc = "sleep", !.attempts = attempts,
                               !.last_error = last_error, !.posts = @ + 1,
                               !.sleeps = Append(@, backoff_delay(attempts)),
                               !.slept_last = TRUE ]
          ELSE webhook_call' = [ webhook_call EXCEPT
                               !.attempts = attempts, !.last_error = last_error,
                               !.posts = @ + 1, !.slept_last = FALSE ]
  /\ UNCHANGED << matcher, validation, health, demo,
                  inbox_query, message_call, poller, aws_call >>
  /\ UNCHANGED ingest_vars
  /\ UNCHANGED rate_vars
  /\ UNCHANGED worker_vars

\* asyncio.sleep(delay) returns
deliver_with_retry_sleep ==
  /\ webhook_call.pc = "sleep"
  /\ webhook_call' = [webhook_call EXCEPT !.pc = "loop"]
  /\ UNCHANGED << matcher, validation, health, demo,
                  inbox_query, message_call, poller, aws_call >>
  /\ UNCHANGED ingest_vars
  /\ UNCHANGED rate_vars
  /\ UNCHANGED worker_vars

\* no request-body validation, health call or demo call under way
\* no query_events, process_message, poll loop or retry loop unit under way
LaterUnitsUnused ==
  /\ inbox_query = [pc |-> "unused"]
  /\ message_call = [pc |-> "unused"]
  /\ poller = [pc |-> "unused"]
  /\ aws_call = [pc |-> "unused"]

OtherUnitsUnused ==
  /\ validation = [pc |-> "unused"]
  /\ health = [pc |-> "unused"]
  /\ demo = [pc |-> "unused"]
  /\ inbox_query = [pc |-> "unused"]
  /\ message_call = [pc |-> "unused"]
  /\ poller = [pc |-> "unused"]
  /\ aws_call = [pc |-> "unused"]

\* no matcher call and no webhook_call call under way
UnitsUnused ==
  /\ matcher = [ matcher_call(EmptyPayload, NoSelector) EXCEPT !.pc = "unused" ]
  /\ webhook_call = [ delivery_call(webhook_max_retries,
                                [attempt \in 1..(webhook_max_retries + 1) |-> 200])
                    EXCEPT !.pc = "unused" ]
  /\ OtherUnitsUnused

\* EventMatcher._matches_subscription returns
matches_subscription_return ==
  /\ matcher.pc = "called"
  /\ matcher' = [ matcher EXCEPT
                    !.pc = "returned",
                    !.result = _matches_subscription(matcher.event_payload,
                                                     matcher.subscription) ]
  /\ UNCHANGED << webhook_call, validation, health, demo,
                  inbox_query, message_call, poller, aws_call >>
  /\ UNCHANGED ingest_vars
  /\ UNCHANGED rate_vars
  /\ UNCHANGED worker_vars

(***************************************************************************)
(* Specification Spec: the ingestion endpoint in the production            *)
(* configuration (queue URL set, Redis reachable at construction), every   *)
(* request a POST /events of an active customer                            *)
(***************************************************************************)
IngestInit ==
  /\ customer_status = [c \in Customers |-> "active"]
  /\ req = [r \in Reqs |-> IdleRequest]
  /\ listed = [r \in Reqs |-> {}]
  /\ event_table = StoredBefore
  /\ table_state = "uninit"
  /\ sqs_client_cached = FALSE
  /\ sqs_event_queue_url = "queue-url"
  /\ queue = {}
  /\ idem_redis = TRUE
  /\ idem_cache = [k \in IdemKeys |->
                     IF k = "idem-seed" THEN IdempotencyRecordText(1) ELSE Absent]
  /\ next_uuid = Cardinality(StoredBefore)
  /\ acted_for = {}
  /\ deleted_log = {}

Init == IngestInit /\ RateLimiterUnused /\ WorkerUnused /\ UnitsUnused

submit_request(r) ==
  authenticate(r, {"submit"}, {"key-A", "key-B"}, {"ok"}, IdemKeys \cup {None},
               {[event_type |-> "order.created"]})

Next ==
  \/ \E r \in Reqs : submit_request(r)
  \/ \E r \in Reqs : submit_event_check(r)
  \/ \E r \in Reqs : submit_event_store(r)
  \/ \E r \in Reqs : submit_event_enqueue(r)
  \/ \E r \in Reqs : submit_event_respond(r)

vars == << ingest_vars, rate_vars, worker_vars, unit_vars >>

Spec == Init /\ [][Next]_vars

(***************************************************************************)
(* Specification SpecNoCache: submissions when the idempotency handler may *)
(* have no Redis client (IdempotencyHandler._initialize_redis failed while *)
(* the Redis server still holds a record)                                  *)
(***************************************************************************)
InitNoCache ==
  /\ customer_status = [c \in Customers |-> "active"]
  /\ req = [r \in Reqs |-> IdleRequest]
  /\ listed = [r \in Reqs |-> {}]
  /\ event_table = StoredBefore
  /\ table_state = "uninit"
  /\ sqs_client_cached = FALSE
  /\ sqs_event_queue_url = "queue-url"
  /\ queue = {}
  /\ idem_redis \in BOOLEAN
  /\ idem_cache = [k \in IdemKeys |->
                     IF k = "idem-seed" THEN IdempotencyRecordText(1) ELSE Absent]
  /\ next_uuid = Cardinality(StoredBefore)
  /\ acted_for = {}
  /\ deleted_log = {}
  /\ RateLimiterUnused
  /\ WorkerUnused
  /\ UnitsUnused

SpecNoCache == InitNoCache /\ [][Next]_vars

(***************************************************************************)
(* Specification SpecInbox: the three authenticated endpoints under any    *)
(* bearer token and any outcome of the customer lookup, with customers     *)
(* disabled and enabled meanwhile; submissions carry no Idempotency-Key    *)
(***************************************************************************)
CustomerStatuses == {"active", "disabled"}

api_request(r) ==
  authenticate(r, Kinds, Tokens, LookupOutcomes, {None},
               {[event_type |-> "ticket.created"]})

NextInbox ==
  \/ \E r \in Reqs : api_request(r)
  \/ \E r \in Reqs : submit_event_check(r)
  \/ \E r \in Reqs : submit_event_store(r)
  \/ \E r \in Reqs : submit_event_enqueue(r)
  \/ \E r \in Reqs : submit_event_respond(r)
  \/ \E r \in Reqs : get_events(r)
  \/ \E r \in Reqs : inbox_delete_event(r)
  \/ \E c \in Customers, status \in CustomerStatuses : update_customer_status(c, status)

SpecInbox == Init /\ [][NextInbox]_vars

(***************************************************************************)
(* Specification SpecRate: the rate-limiting middleware under any          *)
(* configured limit and window, with and without its Redis client          *)
(***************************************************************************)
InitRate ==
  /\ IngestInit
  /\ WorkerUnused
  /\ UnitsUnused
  /\ now = 0
  /\ settings \in [rate_limit_per_second : 1..MaxRateLimit,
                   rate_limit_window_seconds : 1..MaxWindow]
  /\ rl_redis \in BOOLEAN
  /\ customer_rate_limit = [c \in Customers |-> default_rate_limit_per_second]
  /\ rl_store = [k \in RateKeys |-> NoEntry]
  /\ rl_call = [c \in Calls |-> IdleCall]

NextRate ==
  \/ \E c \in Calls : dispatch_get(c)
  \/ \E c \in Calls : dispatch_decide(c)
  \/ Tick

SpecRate == InitRate /\ [][NextRate]_vars

(***************************************************************************)
(* Specification SpecRateCustomers: the middleware with customers created  *)
(* with any rate_limit_per_second of their own                             *)
(***************************************************************************)
InitRateCustomers ==
  /\ IngestInit
  /\ WorkerUnused
  /\ UnitsUnused
  /\ now = 0
  /\ settings \in [rate_limit_per_second : 1..MaxRateLimit,
                   rate_limit_window_seconds : 1..MaxWindow]
  /\ rl_redis = TRUE
  /\ customer_rate_limit \in [Customers -> 1..MaxRateLimit]
  /\ rl_store = [k \in RateKeys |-> NoEntry]
  /\ rl_call = [c \in Calls |-> IdleCall]

SpecRateCustomers == InitRateCustomers /\ [][NextRate]_vars

(***************************************************************************)
(* Specification SpecWorker: submissions without Idempotency-Key and the   *)
(* worker in either deployment form, the store answering the worker;       *)
(* FairSpecWorker adds that the worker and the queue keep running          *)
(***************************************************************************)
InitWorker ==
  /\ IngestInit
  /\ RateLimiterUnused
  /\ UnitsUnused
  /\ worker_form \in {"lambda", "standalone"}
  /\ esm_report_failures \in BOOLEAN
  /\ subscription_table \in {Subscriptions, SubscriptionsSelective,
                             SubscriptionsWithTextSelector}
  /\ worker = IdleWorker
  /\ webhook_log = NoRun

\* submissions whose events the worker is followed on
MaxWorkerEvents == 1

worker_request(r) ==
  /\ r <= MaxWorkerEvents
  /\ authenticate(r, {"submit"}, {"key-A", "key-B"}, {"ok"}, {None}, Payloads)

NextWorker ==
  \/ \E r \in Reqs : worker_request(r)
  \/ \E r \in Reqs : submit_event_check(r)
  \/ \E r \in Reqs : submit_event_store(r)
  \/ \E r \in Reqs : submit_event_enqueue(r)
  \/ \E r \in Reqs : submit_event_respond(r)
  \/ SQSWorker_receive
  \/ lambda_invoke
  \/ worker_process_message
  \/ lambda_return
  \/ visibility_timeout

SpecWorker == InitWorker /\ [][NextWorker]_vars

FairSpecWorker ==
  /\ SpecWorker
  /\ WF_vars(SQSWorker_receive)
  /\ WF_vars(lambda_invoke)
  /\ WF_vars(worker_process_message)
  /\ WF_vars(lambda_return)
  /\ WF_vars(visibility_timeout)

(***************************************************************************)
(* Specification SpecMatch: one call of _matches_subscription on any of    *)
(* the payloads and selectors above                                        *)
(***************************************************************************)
InitMatch ==
  /\ IngestInit
  /\ RateLimiterUnused
  /\ WorkerUnused
  /\ matcher \in { matcher_call(event_payload, event_selector) :
                     event_payload \in MatchPayloads, event_selector \in MatchSelectors }
  /\ webhook_call = [ delivery_call(webhook_max_retries,
                                [attempt \in 1..(webhook_max_retries + 1) |-> 200])
                    EXCEPT !.pc = "unused" ]
  /\ OtherUnitsUnused

NextMatch == matches_subscription_return

SpecMatch == InitMatch /\ [][NextMatch]_vars

(***************************************************************************)
(* Specification SpecDelivery: one call of deliver_with_retry against any  *)
(* of the targets above                                                    *)
(***************************************************************************)
InitDelivery ==
  /\ IngestInit
  /\ RateLimiterUnused
  /\ WorkerUnused
  /\ matcher = [ matcher_call(EmptyPayload, NoSelector) EXCEPT !.pc = "unused" ]
  /\ webhook_call \in { delivery_call(max_retries_arg, responses) :
                      max_retries_arg \in RetryLimits, responses \in ResponseScenarios }
  /\ OtherUnitsUnused

NextDelivery ==
  \/ deliver_with_retry_attempt
  \/ deliver_with_retry_sleep

SpecDelivery == InitDelivery /\ [][NextDelivery]_vars

(***************************************************************************)
(* Idempotent submission                                                   *)
(***************************************************************************)
\* two answered submissions of one customer under one Idempotency-Key, no
\* cache call of either having raised
SameKeyPair(r1, r2) ==
  /\ r1 # r2
  /\ Done(r1) /\ Done(r2)
  /\ req[r1].kind = "submit" /\ req[r2].kind = "submit"
  /\ req[r1].idem # None /\ req[r1].idem = req[r2].idem
  /\ req[r1].customer_id = req[r2].customer_id
  /\ idem_redis /\ ~req[r1].redis_err /\ ~req[r2].redis_err

\* the messages on the queue that carry one of the given event ids
MessagesOf(event_ids) == { m \in queue : m.message_id \in event_ids }

\* the stored events that carry one of the given event ids
ItemsOf(event_ids) == { i \in event_table : i.event_id \in event_ids }

\* C1: with the cache available, once a submission under key k was answered
\* 202 with event_id e, a later submission under k (one that arrives after
\* that answer) is answered 202 from the cache with the same event_id e.
C1_LaterSubmissionSameEventId ==
  \A r1, r2 \in Reqs :
    (SameKeyPair(r1, r2) /\ req[r1].http = 202 /\ r1 \in req[r2].after)
      => (req[r2].http = 202 /\ req[r2].hit /\ req[r2].event_id = req[r1].event_id)

\* C2: two overlapping submissions under one key (neither arrived after the
\* other's answer), both answered 202, carry one event_id, and at most one
\* of the two created an event: one message and one stored event carry it.
C2_ConcurrentSameKeyOneEvent ==
  \A r1, r2 \in Reqs :
    ( /\ SameKeyPair(r1, r2)
      /\ r1 \notin req[r2].after /\ r2 \notin req[r1].after
      /\ req[r1].http = 202 /\ req[r2].http = 202 )
      => LET ids == {req[r1].event_id, req[r2].event_id} IN
         /\ req[r1].event_id = req[r2].event_id
         /\ Cardinality({ r \in {r1, r2} : req[r].calls # {} }) <= 1
         /\ Cardinality(MessagesOf(ids)) <= 1
         /\ Cardinality(ItemsOf(ids)) <= 1

\* C3: a submission answered from the idempotency cache has called neither
\* store_event nor enqueue_event / enqueue_event_local nor cache_response,
\* and the step that answers it leaves the stored events, the queue and the
\* idempotency records as they were.
C3_HitChangesNothing ==
  /\ [](\A r \in Reqs : (Done(r) /\ req[r].hit) => req[r].calls = {})
  /\ [][\A r \in Reqs :
          (req[r].pc = "check" /\ req'[r].pc = "done" /\ req'[r].hit)
            => UNCHANGED << event_table, queue, idem_cache, next_uuid >>]_vars

\* a submission has been answered from the idempotency cache
C3_Witness ==
  \E r \in Reqs : Done(r) /\ req[r].hit /\ req[r].http = 202 /\ req[r].event_id = 1

\* C4: with a queue URL configured, a submission is answered 202 for a new
\* event only if the event's message was sent to the queue.
C4_AcceptedOnlyIfPublished ==
  \A r \in Reqs :
    ( /\ Done(r) /\ req[r].kind = "submit" /\ req[r].http = 202 /\ ~req[r].hit
      /\ sqs_event_queue_url # None )
      => MessagesOf({req[r].event_id}) # {}

(***************************************************************************)
(* Authentication and the inbox                                            *)
(***************************************************************************)
\* the active customer a bearer token belongs to, if any
Resolves(token, status) ==
  \E c \in Customers : api_key_of[c] = token /\ status[c] = "active"

\* C6: every event the inbox list operation returned carries the caller's
\* customer_id, and every record the inbox delete operation removed had the
\* caller's customer_id as its partition key.
C6_TenantIsolation ==
  /\ \A r \in Reqs : \A e \in listed[r] : e.customer_id = req[r].customer_id
  /\ \A d \in deleted_log : d.item.customer_id = d.by

\* one customer has listed events and a record was deleted while the other
\* customer's events were in the store
C6_Witness ==
  /\ \E r \in Reqs :
       /\ listed[r] # {}
       /\ \E i \in event_table : i.customer_id # req[r].customer_id
  /\ \E d \in deleted_log :
       \E i \in event_table : i.customer_id # d.by

\* C7: a request whose token is empty, belongs to no customer or belongs to
\* a customer that is not active when it authenticates is answered 401 with
\* no customer_id; a request without a customer_id has called no service and
\* no event was stored, enqueued or deleted for it; every request that does
\* authenticate bears the key of a customer active at that moment.
C7_RejectedTokensDoNothing ==
  /\ [](\A r \in Reqs :
          req[r].customer_id = None => (req[r].calls = {} /\ r \notin acted_for
                                        /\ listed[r] = {}))
  /\ [][\A r \in Reqs :
          (req[r].pc = "idle" /\ req'[r].pc # "idle")
            => /\ ~Resolves(req'[r].token, customer_status)
                    => ( /\ req'[r].pc = "done" /\ req'[r].http = 401
                         /\ req'[r].customer_id = None )
               /\ req'[r].customer_id # None
                    => ( /\ api_key_of[req'[r].customer_id] = req'[r].token
                         /\ customer_status[req'[r].customer_id] = "active" )]_vars

\* a customer's key authenticated, the customer was disabled, and a later
\* request with the same key was answered 401 although the lookup worked
C7_Witness ==
  \E r1, r2 \in Reqs :
    /\ r1 \in req[r2].after
    /\ req[r1].token = "key-A" /\ req[r1].customer_id = "cust-A"
    /\ req[r2].token = "key-A" /\ req[r2].lookup = "ok"
    /\ Done(r2) /\ req[r2].http = 401 /\ req[r2].customer_id = None
    /\ customer_status["cust-A"] = "disabled"

\* C8: a request whose customer lookup itself failed (no database session,
\* or the query raised) is answered 500.
C8_LookupErrorIsInternal ==
  \A r \in Reqs :
    (Done(r) /\ req[r].lookup \in {"no_session", "query_raises"})
      => req[r].http = 500

NoCacheFor(r) ==
  /\ req[r].kind = "submit" /\ req[r].idem # None /\ req[r].customer_id # None
  /\ (~idem_redis \/ req[r].redis_err)

\* C13: without an idempotency cache (no client, or the cache call raising)
\* a submission is never answered from the cache and never answered with an
\* error because of the cache: it is answered 202 unless publishing its
\* message failed; two such submissions under one key that are answered 202
\* have distinct event_ids and each its own message on the queue.
C13_NoCacheDistinctEvents ==
  /\ \A r \in Reqs :
       (Done(r) /\ NoCacheFor(r))
         => /\ ~req[r].hit
            /\ \/ req[r].http = 202
               \/ req[r].http = 500 /\ "enqueue_event" \in req[r].calls
                                    /\ MessagesOf({req[r].event_id}) = {}
  /\ \A r1 \in Reqs, r2 \in Reqs :
       ( /\ r1 # r2 /\ Done(r1) /\ Done(r2)
         /\ NoCacheFor(r1) /\ NoCacheFor(r2) /\ req[r1].idem = req[r2].idem
         /\ req[r1].http = 202 /\ req[r2].http = 202 )
         => /\ req[r1].event_id # req[r2].event_id
            /\ ("enqueue_event" \in req[r1].calls /\ "enqueue_event" \in req[r2].calls)
                 => Cardinality(MessagesOf({req[r1].event_id, req[r2].event_id})) = 2

\* two submissions of one customer under the key the Redis server holds a
\* record for, made with no client, were both answered 202 with new ids
C13_Witness ==
  \E r1 \in Reqs, r2 \in Reqs :
    /\ r1 # r2 /\ Done(r1) /\ Done(r2) /\ ~idem_redis
    /\ NoCacheFor(r1) /\ NoCacheFor(r2)
    /\ req[r1].idem = "idem-seed" /\ req[r2].idem = "idem-seed"
    /\ req[r1].customer_id = req[r2].customer_id
    /\ req[r1].http = 202 /\ req[r2].http = 202
    /\ req[r1].event_id # req[r2].event_id
    /\ Cardinality(ItemsOf({req[r1].event_id, req[r2].event_id})) = 2

\* the same with a client whose every call raised
C13_WitnessErroring ==
  \E r1 \in Reqs, r2 \in Reqs :
    /\ r1 # r2 /\ Done(r1) /\ Done(r2) /\ idem_redis
    /\ req[r1].redis_err /\ req[r2].redis_err
    /\ req[r1].idem = "idem-seed" /\ req[r2].idem = "idem-seed"
    /\ req[r1].http = 202 /\ req[r2].http = 202
    /\ req[r1].event_id # req[r2].event_id

(***************************************************************************)
(* Rate limiting                                                           *)
(***************************************************************************)
\* the passes that finished before pass c began, were allowed for c's API
\* key in c's window, and met no Redis error
AllowedBefore(c) ==
  { d \in rl_call[c].after :
      /\ rl_call[d].checked /\ ~rl_call[d].redis_err /\ rl_call[d].is_allowed
      /\ rl_call[d].api_key = rl_call[c].api_key
      /\ rl_call[d].window_start = rl_call[c].window_start }

\* C10: with the cache available, a call that finds N earlier calls allowed
\* for its API key in its window (N the configured limit) returns
\* (false, retry_after) with retry_after at least one second, and the
\* middleware answers 429 with that Retry-After.
C10_NextCallRejected ==
  \A c \in Calls :
    ( /\ CallDone(c) /\ rl_call[c].checked
      /\ Cardinality(AllowedBefore(c)) >= settings.rate_limit_per_second )
      => /\ ~rl_call[c].is_allowed
         /\ rl_call[c].retry_after # NoInt
         /\ \A n \in rl_call[c].retry_after :
              n >= 1 /\ n <= settings.rate_limit_window_seconds
         /\ rl_call[c].http = 429
         /\ rl_call[c].retry_after_header = rl_call[c].retry_after

\* with a limit of two and a window of two seconds, two calls were allowed
\* and the third, in the window's last second, was rejected with one second
\* to wait
C10_Witness ==
  \E c \in Calls :
    /\ settings.rate_limit_per_second = 2
    /\ settings.rate_limit_window_seconds = 2
    /\ CallDone(c) /\ rl_call[c].checked
    /\ Cardinality(AllowedBefore(c)) = 2
    /\ rl_call[c].http = 429
    /\ rl_call[c].retry_after_header = SomeInt(1)

\* the passes allowed for API key k in window w with the cache answering
\* every call
AllowedIn(k, w) ==
  { c \in Calls :
      /\ CallDone(c) /\ rl_call[c].checked /\ ~rl_call[c].redis_err
      /\ rl_call[c].is_allowed
      /\ rl_call[c].api_key = k /\ rl_call[c].window_start = w }

\* C11: in any interleaving of concurrent check_rate_limit calls for one API
\* key within one window, with the cache available, the number of calls
\* that return allowed never exceeds the configured limit.
C11_AllowedNeverExceedsLimit ==
  rl_redis =>
    \A k \in ApiKeys, w \in 0..MaxTime :
      Cardinality(AllowedIn(k, w)) <= settings.rate_limit_per_second

\* C12: a check_rate_limit call made without a cache client, or one of
\* whose cache calls raised, returns (true, absent) however many calls were
\* allowed before it, and its request is passed on, never answered 429.
C12_FailOpen ==
  \A c \in Calls :
    (CallDone(c) /\ (~rl_redis \/ rl_call[c].redis_err))
      => /\ rl_call[c].is_allowed
         /\ rl_call[c].retry_after = NoInt
         /\ rl_call[c].http = 200
         /\ rl_call[c].retry_after_header = NoInt

\* the limit was already used up in the window when a call's read of the
\* counter raised, and the call was allowed
C12_Witness ==
  \E c \in Calls :
    /\ rl_redis /\ CallDone(c) /\ rl_call[c].redis_err /\ ~rl_call[c].checked
    /\ Cardinality(AllowedBefore(c)) >= settings.rate_limit_per_second
    /\ rl_call[c].http = 200

(***************************************************************************)
(* Processing of accepted events                                           *)
(***************************************************************************)
\* the submission was answered 202 with a queue configured, its event stored
\* and its message published
Accepted(r) ==
  /\ Done(r) /\ req[r].kind = "submit" /\ req[r].http = 202 /\ ~req[r].hit
  /\ sqs_event_queue_url # None
  /\ "enqueue_event" \in req[r].calls
  /\ ItemsOf({req[r].event_id}) # {}

\* the stored event of the submission has a status other than pending
Settled(r) ==
  \E i \in ItemsOf({req[r].event_id}) :
    i.status \in {"unmatched", "delivered", "failed"}

\* C5: with the worker (Lambda handler or standalone poller), the queue's
\* visibility timeout and the store all kept running, every event accepted
\* with 202 and published to the queue eventually has a stored status of
\* unmatched, delivered or failed.
C5_AcceptedEventuallySettled ==
  \A r \in Reqs : Accepted(r) ~> Settled(r)

\* the same for the Lambda deployment alone
LambdaAcceptedEventuallySettled ==
  \A r \in Reqs :
    (Accepted(r) /\ worker_form = "lambda" /\ subscription_table = Subscriptions)
      ~> Settled(r)

(***************************************************************************)
(* Matching and delivery fan-out                                           *)
(***************************************************************************)
\* the positions, in the list the latest process_event run loaded, of the
\* subscriptions whose selector the run's payload satisfies
MatchingIndices ==
  { i \in 1..Len(webhook_log.subscriptions) :
      _matches_subscription(webhook_log.payload, webhook_log.subscriptions[i]) }

\* the j-th smallest of them
NthMatching(j) ==
  CHOOSE i \in MatchingIndices : Cardinality({ k \in MatchingIndices : k <= i }) = j

\* C14: with K of the loaded active subscriptions satisfied by the event,
\* match_event_to_subscriptions returns exactly those K in the order of the
\* list, and the process_event run made exactly K deliver_with_retry calls
\* for the event, the j-th to the j-th matching subscription, whatever the
\* earlier calls returned.
C14_FanOut ==
  LET subscriptions == webhook_log.subscriptions
      calls == webhook_log.calls
      K == Cardinality(MatchingIndices)
  IN
  (webhook_log.event_id # NoEvent /\ ~webhook_log.raised) =>
    /\ match_event_to_subscriptions(webhook_log.payload, subscriptions)
         = [ j \in 1..K |-> subscriptions[NthMatching(j)] ]
    /\ Len(calls) = K
    /\ \A j \in 1..K :
         /\ calls[j].workflow_id = subscriptions[NthMatching(j)].workflow_id
         /\ calls[j].event_id = webhook_log.event_id

\* two subscriptions matched; the delivery to the first failed and the
\* second was still called
C14_Witness ==
  /\ webhook_log.event_id # NoEvent
  /\ Cardinality(MatchingIndices) = 2
  /\ Len(webhook_log.calls) = 2
  /\ ~webhook_log.calls[1].success
  /\ webhook_log.calls[2].success

\* two subscriptions were loaded and only the second matched
C14_WitnessSecondOnly ==
  /\ webhook_log.event_id # NoEvent
  /\ Len(webhook_log.subscriptions) = 2
  /\ MatchingIndices = {2}
  /\ Len(webhook_log.calls) = 1

(***************************************************************************)
(* Matching correctness                                                    *)
(***************************************************************************)
\* the selector of the call is of type event_type (named or by default) and
\* carries a value
EventTypeSelectorWithValue(event_selector) ==
  /\ event_selector # NoSelector
  /\ DictGet(event_selector, "type", "event_type") = "event_type"
  /\ "value" \in DOMAIN event_selector

\* C15: a subscription with an absent selector matches every payload, and
\* one whose selector has type event_type (or no type) and value V matches
\* payload P if and only if P has an event_type and it equals V.
C15_EventTypeMatching ==
  LET P == matcher.event_payload
      event_selector == matcher.subscription.event_selector
  IN
  matcher.pc = "returned" =>
    /\ event_selector = NoSelector => matcher.result
    /\ EventTypeSelectorWithValue(event_selector) =>
         ( matcher.result <=>
             ("event_type" \in DOMAIN P /\ P["event_type"] = event_selector["value"]) )

\* the selector of the call is of type custom and its rule names a field
\* and the given operator
CustomSelectorWith(event_selector, operator) ==
  /\ event_selector # NoSelector
  /\ DictGet(event_selector, "type", "event_type") = "custom"
  /\ "function" \in DOMAIN event_selector
  /\ DictGet(event_selector["function"], "field", "") # ""
  /\ DictGet(event_selector["function"], "operator", None) = operator

\* the payload has the field, with a value other than null
FieldPresent(P, field) == field \in DOMAIN P /\ P[field] # JNull

\* C16: a custom selector with operator exists matches if and only if the
\* named field is present in the payload; with operator contains it never
\* matches when the field is absent, and when the field is present it
\* matches if and only if its value is a substring of the string form of the
\* field's value.
C16_CustomMatching ==
  LET P == matcher.event_payload
      event_selector == matcher.subscription.event_selector
      rule == event_selector["function"]
      value == DictGet(rule, "value", JNull)
  IN
  matcher.pc = "returned" =>
    /\ CustomSelectorWith(event_selector, "exists") =>
         (matcher.result <=> FieldPresent(P, rule["field"]))
    /\ CustomSelectorWith(event_selector, "contains") =>
         IF FieldPresent(P, rule["field"])
         THEN matcher.result <=>
                (value.t = "str" /\ py_in(value.v, py_str(P[rule["field"]])))
         ELSE ~matcher.result

\* the two halves of C16 that the implementation keeps: operator exists,
\* and operator contains on an absent field
ExistsAndAbsentContains ==
  LET P == matcher.event_payload
      event_selector == matcher.subscription.event_selector
      rule == event_selector["function"]
  IN
  matcher.pc = "returned" =>
    /\ CustomSelectorWith(event_selector, "exists") =>
         (matcher.result <=> FieldPresent(P, rule["field"]))
    /\ (CustomSelectorWith(event_selector, "contains") /\ ~FieldPresent(P, rule["field"]))
         => ~matcher.result

(***************************************************************************)
(* Webhook delivery with retry                                             *)
(***************************************************************************)
\* the target of the call answers every attempt with the given failure
AlwaysAnswers(status_code) ==
  \A attempt \in 1..webhook_call.max_retries :
    webhook_call.responses[attempt] = status_code

\* the attempt-by-attempt call returns what the operator deliver_with_retry
\* computes
StepwiseAgreesWithDeliverWithRetry ==
  (webhook_call.pc = "returned" /\ webhook_call.max_retries = webhook_max_retries)
    => /\ webhook_call.result.success = deliver_with_retry(webhook_call.responses).success
       /\ webhook_call.result.attempts = deliver_with_retry(webhook_call.responses).attempts

\* C17: deliver_with_retry never makes more than max_retries HTTP attempts;
\* against a target that always answers 500, or always times out, it makes
\* exactly max_retries attempts and returns (false, max_retries, the error
\* of the last attempt); it sleeps after every attempt but the last.
C17_RetryTermination ==
  /\ webhook_call.posts <= webhook_call.max_retries
  /\ webhook_call.pc = "sleep" => webhook_call.attempts < webhook_call.max_retries
  /\ \A status_code \in {500, TimeoutException} :
       (webhook_call.pc = "returned" /\ AlwaysAnswers(status_code))
         => /\ webhook_call.posts = webhook_call.max_retries
            /\ webhook_call.result =
                 [ success |-> FALSE, attempts |-> webhook_call.max_retries,
                   error |-> [ error |-> deliver_webhook(status_code).error,
                               status_code |-> status_code ] ]
            /\ Len(webhook_call.sleeps) = webhook_call.max_retries - 1
            /\ ~webhook_call.slept_last

\* five attempts answered 500, four sleeps of 2, 4, 8 and 16 seconds
C17_Witness ==
  /\ webhook_call.pc = "returned" /\ AlwaysAnswers(500)
  /\ webhook_call.max_retries = webhook_max_retries
  /\ webhook_call.posts = 5
  /\ webhook_call.sleeps = <<2, 4, 8, 16>>
  /\ webhook_call.result.error = [error |-> "Server error:", status_code |-> 500]

\* C18: within one deliver_with_retry call a first response of 410, or of a
\* 4xx other than 429, ends the call after exactly one attempt, with failure
\* and without a sleep; a response of 429 never ends the call while attempts
\* remain: the call sleeps and attempts again.
C18_NonRetryableStopsAt429Continues ==
  /\ ( /\ webhook_call.pc = "returned"
       /\ non_retryable(webhook_call.responses[1]) )
       => /\ webhook_call.posts = 1
          /\ webhook_call.result.success = FALSE
          /\ webhook_call.result.attempts = 1
          /\ webhook_call.result.error.status_code = webhook_call.responses[1]
          /\ webhook_call.sleeps = << >>
  /\ ( /\ webhook_call.pc \in {"loop", "sleep", "returned"}
       /\ webhook_call.attempts >= 1
       /\ webhook_call.attempts < webhook_call.max_retries
       /\ webhook_call.responses[webhook_call.attempts] = 429 )
       => /\ webhook_call.pc # "returned"
          /\ Len(webhook_call.sleeps) = webhook_call.attempts

\* the target answered the first attempt 404: one attempt, no sleep
C18_Witness ==
  /\ webhook_call.pc = "returned"
  /\ webhook_call.max_retries = webhook_max_retries
  /\ webhook_call.responses[1] = 404
  /\ webhook_call.posts = 1
  /\ webhook_call.sleeps = << >>
  /\ ~webhook_call.result.success

\* the target answered 429 twice and then 200: three attempts, two sleeps
C18_Witness429 ==
  /\ webhook_call.pc = "returned"
  /\ webhook_call.responses[1] = 429 /\ webhook_call.responses[2] = 429
  /\ webhook_call.posts = 3
  /\ webhook_call.sleeps = <<2, 4>>
  /\ webhook_call.result.success

\* the step is a process_event run: the worker took a valid record off its
\* batch
ProcessEventRuns ==
  /\ worker.batch # << >>
  /\ Len(worker'.batch) < Len(worker.batch)
  /\ message_fields(Head(worker.batch)).valid

\* C19: once a subscription's target has answered an event's delivery with
\* 410 or a 4xx other than 429, no later process_event run (one made after
\* the queue redelivered the event's message included) makes a delivery call
\* for that event to that subscription.
C19_NoDeliveryAfterNonRetryable ==
  [][ ProcessEventRuns =>
        \A i \in 1..Len(webhook_log'.calls) :
          << webhook_log'.calls[i].event_id, webhook_log'.calls[i].workflow_id >>
            \notin webhook_log.refused ]_vars

(***************************************************************************)
(* Stored status of an event                                               *)
(***************************************************************************)
\* the status changes C20 allows
ForwardChanges ==
  { <<"pending", "unmatched">>, <<"pending", "delivered">>, <<"pending", "failed">>,
    <<"delivered", "failed">>, <<"failed", "delivered">> }

\* C20: the stored status of an event only changes from pending to
\* unmatched, delivered or failed, or between delivered and failed: it never
\* returns to pending, and a delivered or failed event never becomes
\* unmatched.
C20_StatusOnlyMovesForward ==
  [][ \A before \in event_table, after \in event_table' :
        ( /\ before.customer_id = after.customer_id
          /\ before.event_id = after.event_id
          /\ before.status # after.status )
          => << before.status, after.status >> \in ForwardChanges ]_vars

(***************************************************************************)
(* Specification SpecBatch: two accepted events wait in the queue, and the *)
(* worker, in either deployment form, takes them in batches                *)
(***************************************************************************)
\* the events the queue holds at the start
QueuedEvents == 2

\* the state after two accepted submissions without Idempotency-Key: event
\* 3 of cust-A (order.created) and event 4 of either customer
\* (ticket.created), stored as pending and published to the queue
InitBatch ==
  \E payload_3 \in {[event_type |-> "order.created"]}, customer_4 \in Customers,
     payload_4 \in {[event_type |-> "ticket.created"]} :
    /\ customer_status = [c \in Customers |-> "active"]
    /\ req = [r \in Reqs |-> IdleRequest]
    /\ listed = [r \in Reqs |-> {}]
    /\ event_table = StoredBefore \cup
                       { new_item("cust-A", 3, payload_3, "pending"),
                         new_item(customer_4, 4, payload_4, "pending") }
    /\ table_state = "ready"
    /\ sqs_client_cached = TRUE
    /\ sqs_event_queue_url = "queue-url"
    /\ queue = { new_message("cust-A", 3, payload_3),
                 new_message(customer_4, 4, payload_4) }
    /\ idem_redis = TRUE
    /\ idem_cache = [k \in IdemKeys |->
                       IF k = "idem-seed" THEN IdempotencyRecordText(1) ELSE Absent]
    /\ next_uuid = Cardinality(StoredBefore) + QueuedEvents
    /\ acted_for = {}
    /\ deleted_log = {}
    /\ RateLimiterUnused
    /\ UnitsUnused
    /\ worker_form \in {"lambda", "standalone"}
    /\ esm_report_failures \in BOOLEAN
    /\ subscription_table \in {Subscriptions, SubscriptionsSelective,
                               SubscriptionsWithTextSelector}
    /\ worker = IdleWorker
    /\ webhook_log = NoRun

NextBatch ==
  \/ SQSWorker_receive
  \/ lambda_invoke
  \/ worker_process_message
  \/ lambda_return
  \/ visibility_timeout

SpecBatch == InitBatch /\ [][NextBatch]_vars

(***************************************************************************)
(* Request-body validation of POST /api/v1/events (models/events.py) and   *)
(* specification SpecValidation: one request with a payload               *)
(* {"data": <string>} of some length                                       *)
(***************************************************************************)
\* the lengths explored for the string: its ASCII characters, and its
\* characters of two UTF-8 bytes (such as U+00E9)
AsciiLengths == {0, 1, 1048563, 1048564, 1048565, 1048576, 1048577, 2000000}
WideLengths == {0, 1, 2, 200000, 524288}

\* len(json.dumps(v).encode("utf-8")) for v = {"data": s}: json.dumps
\* writes `{"data": "` and `"}` around the string and, with its default
\* ensure_ascii=True, each non-ASCII character of the string as \uXXXX
json_dumps_size(ascii, wide) == 10 + ascii + 6 * wide + 2

\* the bytes of the same document with the characters written in UTF-8
utf8_size(ascii, wide) == 10 + ascii + 2 * wide + 2

\* EventRequest.validate_payload_size: ValueError when the size in MB
\* (bytes / (1024 * 1024)) exceeds 1
validate_payload_size(ascii, wide) ==
  IF json_dumps_size(ascii, wide) > 1024 * 1024 THEN "ValueError" ELSE "ok"

\* the status of the response to a request whose body fails validation:
\* the route declares the body as `request: EventRequest` and the
\* application installs no handler for the validation error
HTTP_422_UNPROCESSABLE_ENTITY == 422

\* status_code of the route
HTTP_202_ACCEPTED == 202

\* a request about to be parsed
validation_call(ascii, wide, idempotency_key) ==
  [ pc |-> "received", ascii |-> ascii, wide |-> wide,
    idempotency_key |-> idempotency_key, http |-> 0, calls |-> {} ]

\* the framework builds the EventRequest from the body; when the validator
\* raises, it answers without calling submit_event
request_validation ==
  /\ validation.pc = "received"
  /\ validation' =
       IF validate_payload_size(validation.ascii, validation.wide) = "ValueError"
       THEN [ validation EXCEPT !.pc = "done", !.http = HTTP_422_UNPROCESSABLE_ENTITY ]
       ELSE [ validation EXCEPT !.pc = "validated" ]
  /\ UNCHANGED << matcher, webhook_call, health, demo,
                  inbox_query, message_call, poller, aws_call >>
  /\ UNCHANGED ingest_vars
  /\ UNCHANGED rate_vars
  /\ UNCHANGED worker_vars

\* submit_event runs with the validated request, the stores and the queue
\* answering: idempotency lookup when a key came, store, enqueue, 202
submit_event_accepts ==
  /\ validation.pc = "validated"
  /\ validation' =
       [ validation EXCEPT
           !.pc = "done", !.http = HTTP_202_ACCEPTED,
           !.calls = (IF validation.idempotency_key # None
                      THEN {"get_cached_response"} ELSE {})
                     \cup {"store_event", "enqueue_event"} ]
  /\ UNCHANGED << matcher, webhook_call, health, demo,
                  inbox_query, message_call, poller, aws_call >>
  /\ UNCHANGED ingest_vars
  /\ UNCHANGED rate_vars
  /\ UNCHANGED worker_vars

InitValidation ==
  /\ IngestInit
  /\ RateLimiterUnused
  /\ WorkerUnused
  /\ LaterUnitsUnused
  /\ matcher = [ matcher_call(EmptyPayload, NoSelector) EXCEPT !.pc = "unused" ]
  /\ webhook_call = [ delivery_call(webhook_max_retries,
                                [attempt \in 1..(webhook_max_retries + 1) |-> 200])
                    EXCEPT !.pc = "unused" ]
  /\ validation \in { validation_call(ascii, wide, idempotency_key) :
                         ascii \in AsciiLengths, wide \in WideLengths,
                         idempotency_key \in {None, "idem-new"} }
  /\ health = [pc |-> "unused"]
  /\ demo = [pc |-> "unused"]

NextValidation ==
  \/ request_validation
  \/ submit_event_accepts

SpecValidation == InitValidation /\ [][NextValidation]_vars

(***************************************************************************)
(* Operator system health (api/operators.py) and specification SpecHealth: *)
(* one GET /admin/operators/system-health over a store holding some        *)
(* delivered and failed events of the last 24 hours                        *)
(***************************************************************************)
\* the most delivered and failed events of the last 24 hours explored
MaxDelivered == 100
MaxFailed == 12

\* success_rate >= threshold, for success_rate =
\* events_delivered / processed_events * 100 and 0.0 without processed
\* events (the quotient is compared exactly: the double the code computes
\* falls on the same side of 90 and 95 for every count up to the scan limit)
rate_at_least(events_delivered, processed_events, threshold) ==
  IF processed_events > 0
  THEN 100 * events_delivered >= threshold * processed_events
  ELSE 0 >= threshold

\* a classification with strict thresholds
health_status_strict(events_delivered, processed_events) ==
  IF processed_events > 0 /\ 100 * events_delivered > 95 * processed_events
  THEN "healthy"
  ELSE IF processed_events > 0 /\ 100 * events_delivered > 90 * processed_events
  THEN "degraded"
  ELSE "unhealthy"

\* get_system_health: the status for the success rate
health_status(events_delivered, processed_events) ==
  IF rate_at_least(events_delivered, processed_events, 95) THEN "healthy"
  ELSE IF rate_at_least(events_delivered, processed_events, 90) THEN "degraded"
  ELSE "unhealthy"

\* round(success_rate, 2), in hundredths of a percent: the hundredth
\* nearest to the rate; where the rate lies midway between two hundredths
\* the double's own error decides, so both are possible
rounded_success_rates(events_delivered, processed_events) ==
  IF processed_events = 0 THEN {0}
  ELSE LET below == (10000 * events_delivered) \div processed_events
           rest == 10000 * events_delivered - below * processed_events
       IN
       IF 2 * rest < processed_events THEN {below}
       ELSE IF 2 * rest > processed_events THEN {below + 1}
       ELSE {below, below + 1}

\* a call over a store with these events of the last 24 hours; `scan` tells
\* whether the scan of query_all_events answers
health_call(delivered, failed, scan) ==
  [ pc |-> "called", delivered |-> delivered, failed |-> failed, scan |-> scan,
    events_delivered |-> 0, events_failed |-> 0, status |-> "", success_rate |-> 0 ]

\* get_system_health: query_all_events returns the events, or [] when its
\* scan raised; the counts, the rate and the status are computed from the
\* returned list
get_system_health ==
  /\ health.pc = "called"
  /\ LET events_delivered == IF health.scan = "ok" THEN health.delivered ELSE 0
         events_failed == IF health.scan = "ok" THEN health.failed ELSE 0
         processed_events == events_delivered + events_failed
     IN
     \E success_rate \in rounded_success_rates(events_delivered, processed_events) :
       health' = [ health EXCEPT
                     !.pc = "returned",
                     !.events_delivered = events_delivered,
                     !.events_failed = events_failed,
                     !.status = health_status(events_delivered, processed_events),
                     !.success_rate = success_rate ]
  /\ UNCHANGED << matcher, webhook_call, validation, demo,
                  inbox_query, message_call, poller, aws_call >>
  /\ UNCHANGED ingest_vars
  /\ UNCHANGED rate_vars
  /\ UNCHANGED worker_vars

InitHealth ==
  /\ IngestInit
  /\ RateLimiterUnused
  /\ WorkerUnused
  /\ LaterUnitsUnused
  /\ matcher = [ matcher_call(EmptyPayload, NoSelector) EXCEPT !.pc = "unused" ]
  /\ webhook_call = [ delivery_call(webhook_max_retries,
                                [attempt \in 1..(webhook_max_retries + 1) |-> 200])
                    EXCEPT !.pc = "unused" ]
  /\ validation = [pc |-> "unused"]
  /\ health \in { health_call(delivered, failed, scan) :
                     delivered \in 0..MaxDelivered, failed \in 0..MaxFailed,
                     scan \in {"ok", "raises"} }
  /\ demo = [pc |-> "unused"]

NextHealth == get_system_health

SpecHealth == InitHealth /\ [][NextHealth]_vars

(***************************************************************************)
(* Demo application (demo/app.py) and specification SpecDemo: one          *)
(* POST /demo/trigger.  Texts are sequences of characters.                 *)
(***************************************************************************)
UpperLetters ==
  << "A", "B", "C", "D", "E", "F", "G", "H", "I", "J", "K", "L", "M", "N", "O", "P", "Q", "R", "S", "T", "U", "V", "W", "X", "Y", "Z" >>

LowerLetters ==
  << "a", "b", "c", "d", "e", "f", "g", "h", "i", "j", "k", "l", "m", "n", "o", "p", "q", "r", "s", "t", "u", "v", "w", "x", "y", "z" >>

\* str.lower()
lower(text) ==
  [ i \in 1..Len(text) |->
      IF \E k \in 1..Len(UpperLetters) : UpperLetters[k] = text[i]
      THEN LowerLetters[CHOOSE k \in 1..Len(UpperLetters) : UpperLetters[k] = text[i]]
      ELSE text[i] ]

\* keyword in text
py_contains(text, keyword) ==
  \E start \in 0..(Len(text) - Len(keyword)) :
    \A i \in 1..Len(keyword) : text[start + i] = keyword[i]

urgent_keywords ==
  { << "a", "n", "g", "r", "y" >>,
    << "u", "r", "g", "e", "n", "t" >>,
    << "c", "r", "i", "t", "i", "c", "a", "l" >>,
    << "e", "s", "c", "a", "l", "a", "t", "e" >>,
    << "e", "m", "e", "r", "g", "e", "n", "c", "y" >> }

\* the priorities and descriptions of the requests explored
DemoPriorities ==
  { << "h", "i", "g", "h" >>,
    << "H", "I", "G", "H" >>,
    << "H", "i", "g", "h" >>,
    << "n", "o", "r", "m", "a", "l" >>,
    << "l", "o", "w" >>,
    << "h", "i", "g", "h", "e", "s", "t" >>,
    << >> }

DemoDescriptions ==
  { << "U", "R", "G", "E", "N", "T" >>,
    << "n", "o", "t", " ", "u", "r", "g", "e", "n", "t" >>,
    << "A", "n", "g", "r", "y" >>,
    << "e", "s", "c", "a", "l", "a", "t", "e", " ", "n", "o", "w" >>,
    << "a", "l", "l", " ", "f", "i", "n", "e" >>,
    << >>,
    << "e", "m", "e", "r", "g", "e", "n", "c" >>,
    << "C", "r", "i", "t", "i", "c", "a", "l" >>,
    << "E", "M", "E", "R", "G", "E", "N", "C", "Y" >>,
    << "u", "r", "g", "e", " ", "n", "t" >> }

\* a rule that compares the texts as they were typed
should_trigger_event_as_typed(document_type, priority, description) ==
  \/ priority = << "h", "i", "g", "h" >>
  \/ \E keyword \in urgent_keywords : py_contains(description, keyword)

\* should_trigger_event: the decision (the reason text is left out)
should_trigger_event(document_type, priority, description) ==
  \/ lower(priority) = << "h", "i", "g", "h" >>
  \/ \E keyword \in urgent_keywords : py_contains(lower(description), keyword)

\* what submit_event_to_triggers_api does: returns a response with or
\* without event_id, or raises (HTTPException 504 after a timeout, 502 after
\* another request error, ValueError when the API is not configured)
TriggersApiOutcomes == {"ok", "no_event_id", "Timeout", "RequestException", "ValueError"}

\* what send_demo_email does
EmailOutcomes == {"ok", "HTTPException", "ValueError"}

\* a request about to be handled
demo_call(priority, description) ==
  [ pc |-> "called", priority |-> priority, description |-> description,
    should_trigger |-> FALSE, http |-> 0, triggered |-> FALSE, event_id |-> None,
    email_sent |-> FALSE, calls |-> {} ]

\* trigger_demo_workflow
trigger_demo_workflow ==
  /\ demo.pc = "called"
  /\ \E api \in TriggersApiOutcomes, email \in EmailOutcomes :
       LET should_trigger == should_trigger_event("ticket", demo.priority,
                                                  demo.description)
           returned == [demo EXCEPT !.pc = "returned", !.should_trigger = should_trigger]
       IN
       demo' =
         IF ~should_trigger
         THEN [ returned EXCEPT !.http = 200 ]
         ELSE IF api = "Timeout"
         THEN [ returned EXCEPT !.http = 504, !.calls = {"triggers_api"} ]
         ELSE IF api = "RequestException"
         THEN [ returned EXCEPT !.http = 502, !.calls = {"triggers_api"} ]
         ELSE IF api = "ValueError"
         THEN [ returned EXCEPT !.http = 500 ]
         ELSE IF api = "no_event_id"
         THEN [ returned EXCEPT !.http = 200, !.triggered = TRUE,
                                !.calls = {"triggers_api"} ]
         ELSE [ returned EXCEPT !.http = 200, !.triggered = TRUE,
                                !.event_id = "event-id",
                                !.email_sent = (email = "ok"),
                                !.calls = IF email = "ValueError"
                                          THEN {"triggers_api"}
                                          ELSE {"triggers_api", "email_provider"} ]
  /\ UNCHANGED << matcher, webhook_call, validation, health,
                  inbox_query, message_call, poller, aws_call >>
  /\ UNCHANGED ingest_vars
  /\ UNCHANGED rate_vars
  /\ UNCHANGED worker_vars

InitDemo ==
  /\ IngestInit
  /\ RateLimiterUnused
  /\ WorkerUnused
  /\ LaterUnitsUnused
  /\ matcher = [ matcher_call(EmptyPayload, NoSelector) EXCEPT !.pc = "unused" ]
  /\ webhook_call = [ delivery_call(webhook_max_retries,
                                [attempt \in 1..(webhook_max_retries + 1) |-> 200])
                    EXCEPT !.pc = "unused" ]
  /\ validation = [pc |-> "unused"]
  /\ health = [pc |-> "unused"]
  /\ demo \in { demo_call(priority, description) :
                   priority \in DemoPriorities, description \in DemoDescriptions }

NextDemo == trigger_demo_workflow

SpecDemo == InitDemo /\ [][NextDemo]_vars

(***************************************************************************)
(* What a process_event run returns and leaves in the store                *)
(***************************************************************************)
\* the status the store holds for the event of the latest run, after the
\* step
StoredStatusAfterRun ==
  LET item == get_item(event_table', webhook_log'.customer_id, webhook_log'.event_id)
  IN IF item = Absent THEN None ELSE item.status

\* the run of this step took the unmatched path: it made no delivery call,
\* did not raise and left the status unmatched
MarkedUnmatched ==
  /\ webhook_log'.calls = << >>
  /\ ~webhook_log'.raised
  /\ StoredStatusAfterRun = "unmatched"

\* one of the run's deliver_with_retry calls succeeded
SomeDeliverySucceeded ==
  \E i \in 1..Len(webhook_log'.calls) : webhook_log'.calls[i].success

C21_WitnessAllFailed ==
  /\ Len(webhook_log.calls) = 2
  /\ \A i \in 1..2 : ~webhook_log.calls[i].success
  /\ ~webhook_log.result

\* a run whose first delivery succeeded and second failed returned true
C21_WitnessFirstOnly ==
  /\ Len(webhook_log.calls) = 2
  /\ webhook_log.calls[1].success
  /\ ~webhook_log.calls[2].success
  /\ webhook_log.result

StoredStatus ==
  LET item == get_item(event_table, webhook_log.customer_id, webhook_log.event_id)
  IN IF item = Absent THEN None ELSE item.status

C22_WitnessLastSucceeded ==
  /\ Len(webhook_log.calls) = 2
  /\ ~webhook_log.calls[1].success
  /\ webhook_log.calls[2].success
  /\ StoredStatus = "delivered"

(***************************************************************************)
(* Whom a process_event run delivers to                                    *)
(***************************************************************************)
\* C29: the deliveries of a process_event run for an event of customer C go
\* only to subscriptions whose customer_id is C and whose status is active.
C29_OnlyOwnActiveSubscriptions ==
  \A i \in 1..Len(webhook_log.calls) :
    \E sub \in subscription_table :
      /\ sub.workflow_id = webhook_log.calls[i].workflow_id
      /\ sub.customer_id = webhook_log.customer_id
      /\ sub.status = "active"

\* a run for cust-A delivered to its active workflows while a disabled
\* workflow of cust-A whose selector the event satisfies got no call
C29_Witness ==
  /\ webhook_log.customer_id = "cust-A"
  /\ webhook_log.calls # << >>
  /\ \E sub \in subscription_table :
       /\ sub.customer_id = "cust-A" /\ sub.status = "disabled"
       /\ _matches_subscription(webhook_log.payload, sub)
       /\ \A i \in 1..Len(webhook_log.calls) :
            webhook_log.calls[i].workflow_id # sub.workflow_id

\* a run for an event of cust-B made no call although another customer's
\* active workflow takes every event
C29_WitnessOtherCustomer ==
  /\ webhook_log.customer_id = "cust-B"
  /\ webhook_log.loading = "ok"
  /\ webhook_log.calls = << >>
  /\ \E sub \in subscription_table :
       /\ sub.customer_id = "cust-A" /\ sub.status = "active"
       /\ sub.event_selector = NoSelector

\* the run of this step loaded no subscription (the customer has no active
\* one, or the query failed)
NoneLoaded == webhook_log'.subscriptions = << >>

\* the run of this step evaluated every loaded selector and none matched
NoneMatched ==
  /\ ~match_event_to_subscriptions_raises(webhook_log'.subscriptions)
  /\ match_event_to_subscriptions(webhook_log'.payload, webhook_log'.subscriptions)
       = << >>

C30_WitnessLoadingFailed ==
  /\ webhook_log.event_id # NoEvent
  /\ webhook_log.customer_id = "cust-A"
  /\ webhook_log.loading = "raises"
  /\ webhook_log.result
  /\ StoredStatus = "unmatched"

\* a run for a customer without subscriptions left the event unmatched
C30_WitnessNoSubscriptions ==
  /\ webhook_log.customer_id = "cust-B"
  /\ webhook_log.loading = "ok"
  /\ webhook_log.result
  /\ StoredStatus = "unmatched"

(***************************************************************************)
(* The worker's two entry points                                           *)
(***************************************************************************)
\* the Lambda handler has gone through its batch and is about to return
HandlerDone ==
  worker_form = "lambda" /\ worker.batch = << >> /\ worker.invoked # {}

\* the positions of the history at which process_message returned False
FailedPositions ==
  { i \in 1..Len(worker.handled) : ~worker.handled[i].result }

\* C23: when the Lambda handler returns, every record of the batch has been
\* passed to process_message exactly once, whatever the earlier records'
\* outcomes, and batchItemFailures holds exactly the message ids of the
\* records for which process_message returned false.
C23_BatchItemFailures ==
  HandlerDone =>
    /\ \A id \in worker.invoked :
         Cardinality({ i \in 1..Len(worker.handled) :
                         worker.handled[i].message_id = id }) = 1
    /\ Len(worker.handled) = Cardinality(worker.invoked)
    /\ worker.failures = { worker.handled[i].message_id : i \in FailedPositions }

\* a batch of two: the first record failed, the second was still processed
\* and succeeded, and only the first is reported
C23_Witness ==
  /\ HandlerDone
  /\ Len(worker.handled) = 2
  /\ ~worker.handled[1].result
  /\ worker.handled[2].result
  /\ worker.failures = { worker.handled[1].message_id }

\* the step is one turn of the standalone worker's loop over its batch
StandaloneTurn ==
  /\ worker_form = "standalone"
  /\ worker.batch # << >>
  /\ Len(worker'.batch) < Len(worker.batch)

StandaloneNeverSucceeds ==
  worker_form = "standalone" =>
    \A i \in 1..Len(worker.handled) : ~worker.handled[i].result

\* C25: the two entry points hand process_message records from which it
\* extracts the same customer_id, event_id and payload, and process_message
\* returns the same result for the same queue message.
C25_SameSemantics ==
  \A m \in queue :
    LET polled == received_message(m)
        mapped == event_record(m)
        fields == message_fields(mapped)
        rows == get_subscriptions(subscription_table, fields.customer_id, "ok")
    IN
    /\ message_fields(polled) = fields
    /\ \A subscriptions \in Orderings(rows) :
       \A responses_of \in [ { sub.workflow_id : sub \in rows } -> WebhookScenarios ] :
         process_message(polled, event_table, subscriptions, responses_of).result
           = process_message(mapped, event_table, subscriptions, responses_of).result

(***************************************************************************)
(* Payload size                                                            *)
(***************************************************************************)
\* C26: a submission whose payload serializes to at most 1 MiB (1048576
\* bytes) of UTF-8 JSON is accepted, and one whose serialization exceeds
\* 1 MiB is rejected with Bad Request (HTTP 400) before any processing:
\* no idempotency lookup, no store, no enqueue.
C26_PayloadSizeBoundary ==
  validation.pc = "done" =>
    IF utf8_size(validation.ascii, validation.wide) <= 1048576
    THEN validation.http = 202
    ELSE validation.http = 400 /\ validation.calls = {}

\* the rejection of an oversized payload makes no call, whatever its status
OversizedRejectedBeforeProcessing ==
  (validation.pc = "done"
     /\ json_dumps_size(validation.ascii, validation.wide) > 1048576)
    => validation.http # 202 /\ validation.calls = {}

\* with ASCII payloads the boundary is where the claim puts it
AsciiBoundary ==
  (validation.pc = "done" /\ validation.wide = 0)
    => (validation.http = 202
          <=> utf8_size(validation.ascii, validation.wide) <= 1048576)

C27_WitnessBoundaries ==
  /\ health.pc = "returned"
  /\ \/ health.events_delivered = 95 /\ health.events_failed = 5
        /\ health.status = "healthy"
     \/ health.events_delivered = 90 /\ health.events_failed = 10
        /\ health.status = "degraded"

\* 89 delivered and 11 failed: unhealthy
C27_WitnessUnhealthy ==
  /\ health.pc = "returned"
  /\ health.events_delivered = 89 /\ health.events_failed = 11
  /\ health.status = "unhealthy"

(***************************************************************************)
(* Demo decision rule                                                      *)
(***************************************************************************)
\* the explored priorities that are "high" in some casing
HighPriorities ==
  { << "h", "i", "g", "h" >>,
    << "H", "I", "G", "H" >>,
    << "H", "i", "g", "h" >> }

\* the explored descriptions that hold one of the five keywords in some
\* casing
KeywordDescriptions ==
  { << "U", "R", "G", "E", "N", "T" >>,
    << "n", "o", "t", " ", "u", "r", "g", "e", "n", "t" >>,
    << "A", "n", "g", "r", "y" >>,
    << "e", "s", "c", "a", "l", "a", "t", "e", " ", "n", "o", "w" >>,
    << "C", "r", "i", "t", "i", "c", "a", "l" >>,
    << "E", "M", "E", "R", "G", "E", "N", "C", "Y" >> }

\* C28: the demo triggers exactly when the priority is "high" in any casing
\* or the description, lower-cased, contains one of angry, urgent,
\* critical, escalate, emergency; when it does not trigger it answers
\* triggered=false without event_id and calls neither the ingestion API nor
\* the e-mail provider.
C28_DemoDecision ==
  demo.pc = "returned" =>
    /\ demo.should_trigger <=> (demo.priority \in HighPriorities
                                  \/ demo.description \in KeywordDescriptions)
    /\ ~demo.should_trigger =>
         /\ demo.http = 200
         /\ ~demo.triggered
         /\ demo.event_id = None
         /\ ~demo.email_sent
         /\ demo.calls = {}

\* priority HIGH with a description without keyword triggered
C28_Witness ==
  /\ demo.pc = "returned"
  /\ demo.priority = << "H", "I", "G", "H" >>
  /\ demo.description = << "a", "l", "l", " ", "f", "i", "n", "e" >>
  /\ demo.triggered
  /\ demo.event_id # None

\* priority normal with the description "Angry" triggered
C28_WitnessKeyword ==
  /\ demo.pc = "returned"
  /\ demo.priority = << "n", "o", "r", "m", "a", "l" >>
  /\ demo.description = << "A", "n", "g", "r", "y" >>
  /\ demo.triggered

\* priority highest with the description "emergenc" did not trigger
C28_WitnessNotTriggered ==
  /\ demo.pc = "returned"
  /\ demo.priority = << "h", "i", "g", "h", "e", "s", "t" >>
  /\ demo.description = << "e", "m", "e", "r", "g", "e", "n", "c" >>
  /\ ~demo.triggered
  /\ demo.calls = {}

(***************************************************************************)
(* Acknowledgement and stored status                                       *)
(***************************************************************************)
\* C39: whenever a process_event run returns true after attempting at least
\* one delivery (so that the message is acknowledged), the status stored
\* for the event is delivered; an acknowledged event is never left failed.
C39_AcknowledgedIsDelivered ==
  [][ (ProcessEventRuns /\ webhook_log'.result /\ webhook_log'.calls # << >>)
        => StoredStatusAfterRun = "delivered" ]_vars

(***************************************************************************)
(* Idempotency cache across customers                                      *)
(***************************************************************************)
\* the customers whose submissions created the event: the owner of an event
\* stored by an earlier run of the service, or the caller of the request
\* that generated the id
CreatorsOf(event_id) ==
  { i.customer_id : i \in { j \in StoredBefore : j.event_id = event_id } }
    \cup { req[q].customer_id :
             q \in { p \in Reqs : /\ "store_event" \in req[p].calls
                                   /\ req[p].event_id = event_id } }

UnpublishedEvents ==
  { i.event_id : i \in event_table \ StoredBefore }
    \ { req[r].event_id : r \in Reqs }

\* the idempotency keys whose record names the event
KeysNaming(event_id) ==
  { k \in IdemKeys : idem_cache[k] = IdempotencyRecordText(event_id) }

MaxStored == 3
QueryLimits == {1, 2}
Timestamps == 1..2
QueryEventTypes == {"order.created", "ticket.created"}
QueryStatuses == {"pending", "delivered"}

\* the customer's items in the order of the sort key event_id
StoredOrders ==
  UNION { [1..n -> [event_type : QueryEventTypes, status : QueryStatuses,
                    timestamp : Timestamps]] : n \in 0..MaxStored }

\* the items with their position in key order as event_id
keyed(stored) ==
  [ k \in 1..Len(stored) |->
      [ event_id |-> k, event_type |-> stored[k].event_type,
        status |-> stored[k].status, timestamp |-> stored[k].timestamp ] ]

\* table.query: one page. Limit bounds the items evaluated, the
\* FilterExpression is applied to the evaluated items afterwards, and
\* LastEvaluatedKey is present (a one-element set) when the page ended at
\* Limit.
table_query(items, ExclusiveStartKey, Limit, status) ==
  LET last == IF ExclusiveStartKey + Limit < Len(items)
              THEN ExclusiveStartKey + Limit ELSE Len(items)
      evaluated == SubSeq(items, ExclusiveStartKey + 1, last)
  IN [ Items |-> SelectSeq(evaluated, LAMBDA i : status = None \/ i.status = status),
       LastEvaluatedKey |-> IF Len(evaluated) = Limit THEN {last} ELSE {} ]

\* query_events, event_storage.py:208-215: the first page, then further
\* pages while one is left and fewer than limit * 2 items were collected
RECURSIVE query_pages(_, _, _, _, _)
query_pages(items, ExclusiveStartKey, limit, status, all_items) ==
  LET response == table_query(items, ExclusiveStartKey, limit * 2, status)
      collected == all_items \o response.Items
  IN IF response.LastEvaluatedKey # {} /\ Len(collected) < limit * 2
     THEN query_pages(items, CHOOSE k \in response.LastEvaluatedKey : TRUE,
                      limit, status, collected)
     ELSE collected

\* events.sort(key = timestamp, reverse = True): stable, most recent first
RECURSIVE sort_timestamp_descending(_, _)
sort_timestamp_descending(events, newest) ==
  IF newest = 0 THEN << >>
  ELSE SelectSeq(events, LAMBDA e : e.timestamp = newest)
         \o sort_timestamp_descending(events, newest - 1)

\* the client-side filters of event_storage.py:223-238; an optional time
\* is a set with at most one element
passes_client_filters(item, event_type, start_time, end_time) ==
  /\ event_type # None => item.event_type = event_type
  /\ \A t \in start_time : ~(item.timestamp < t)
  /\ \A t \in end_time : ~(item.timestamp > t)

\* the first limit elements, events[:limit]
first_items(events, limit) ==
  SubSeq(events, 1, IF Len(events) < limit THEN Len(events) ELSE limit)

\* EventStorageService.query_events on a table that answers
EventStorage_query_events(items, event_type, status, start_time, end_time, limit) ==
  LET all_items == query_pages(items, 0, limit, status, << >>)
      events == SelectSeq(all_items,
                          LAMBDA i : passes_client_filters(i, event_type,
                                                           start_time, end_time))
  IN first_items(sort_timestamp_descending(events, 2), limit)

InitQuery ==
  /\ IngestInit /\ RateLimiterUnused /\ WorkerUnused
  /\ matcher = [ matcher_call(EmptyPayload, NoSelector) EXCEPT !.pc = "unused" ]
  /\ webhook_call = [ delivery_call(webhook_max_retries,
                                    [attempt \in 1..(webhook_max_retries + 1) |-> 200])
                        EXCEPT !.pc = "unused" ]
  /\ validation = [pc |-> "unused"]
  /\ health = [pc |-> "unused"]
  /\ demo = [pc |-> "unused"]
  /\ message_call = [pc |-> "unused"]
  /\ poller = [pc |-> "unused"]
  /\ aws_call = [pc |-> "unused"]
  /\ \E stored \in StoredOrders, limit \in QueryLimits,
        event_type \in QueryEventTypes \cup {None},
        status \in QueryStatuses \cup {None},
        start_time \in {{}, {2}}, end_time \in {{}, {1}} :
       inbox_query = [ pc |-> "called", items |-> keyed(stored), limit |-> limit,
                       event_type |-> event_type, status |-> status,
                       start_time |-> start_time, end_time |-> end_time,
                       events |-> << >> ]

\* the call runs to its return
query_events_call ==
  /\ inbox_query.pc = "called"
  /\ inbox_query' =
       [ inbox_query EXCEPT
           !.pc = "returned",
           !.events = EventStorage_query_events(inbox_query.items,
                        inbox_query.event_type, inbox_query.status,
                        inbox_query.start_time, inbox_query.end_time,
                        inbox_query.limit) ]
  /\ UNCHANGED << matcher, webhook_call, validation, health, demo,
                  message_call, poller, aws_call >>
  /\ UNCHANGED ingest_vars
  /\ UNCHANGED rate_vars
  /\ UNCHANGED worker_vars

NextQuery == query_events_call

SpecQuery == InitQuery /\ [][NextQuery]_vars

\* the customer's stored events that satisfy the call's filters
Satisfying ==
  { k \in 1..Len(inbox_query.items) :
      /\ passes_client_filters(inbox_query.items[k], inbox_query.event_type,
                               inbox_query.start_time, inbox_query.end_time)
      /\ (inbox_query.status # None
            => inbox_query.items[k].status = inbox_query.status) }

\* C36: when at most limit of the customer's stored events satisfy the
\* event_type, status and time-range filters, query_events returns every one
\* of them, most recent first, however many other events the customer has.
C36_ReturnsEveryMatch ==
  (inbox_query.pc = "returned" /\ Cardinality(Satisfying) <= inbox_query.limit)
    => /\ { inbox_query.events[a].event_id : a \in 1..Len(inbox_query.events) } = Satisfying
       /\ \A a, b \in 1..Len(inbox_query.events) :
            a < b => inbox_query.events[a].timestamp >= inbox_query.events[b].timestamp

(***************************************************************************)
(* The limit enforced                                                      *)
(***************************************************************************)
\* the customer a call's API key belongs to has a stored limit other than
\* the configured one
StoredLimitDiffers(c) ==
  \E cust \in Customers :
    /\ api_key_of[cust] = rl_call[c].api_key
    /\ customer_rate_limit[cust] # settings.rate_limit_per_second

\* C40: the decision of check_rate_limit depends on the counter it read and
\* the process-wide configured limit only, whatever rate_limit_per_second is
\* stored for the customer, and a rejected check leaves every window counter
\* as it was.
C40_ConfiguredLimitOnly ==
  /\ [](\A c \in Calls :
          (CallDone(c) /\ rl_call[c].checked /\ ~rl_call[c].redis_err)
            => (rl_call[c].is_allowed
                  <=> rl_call[c].current_count < settings.rate_limit_per_second))
  /\ [][\A c \in Calls :
          (rl_call[c].pc = "decide" /\ rl_call'[c].pc = "done"
             /\ ~rl_call'[c].is_allowed)
            => rl_store' = rl_store]_vars

\* a customer stored with limit 1 under a configured limit of 2 had a second
\* call allowed in one window, and one stored with limit 2 under a configured
\* limit of 1 had a second call rejected
C40_Witness ==
  \E c \in Calls :
    /\ CallDone(c) /\ rl_call[c].checked /\ ~rl_call[c].redis_err
    /\ StoredLimitDiffers(c)
    /\ rl_call[c].current_count = 1
    /\ rl_call[c].is_allowed
    /\ settings.rate_limit_per_second = 2

\* the rejected side of the same case
C40_WitnessRejected ==
  \E c \in Calls :
    /\ CallDone(c) /\ rl_call[c].checked
    /\ StoredLimitDiffers(c)
    /\ rl_call[c].current_count = 1
    /\ ~rl_call[c].is_allowed /\ rl_call[c].http = 429
    /\ settings.rate_limit_per_second = 1
    /\ rl_store[<< rl_call[c].api_key, rl_call[c].window_start >>].count = 1

(***************************************************************************)
\* the elements of a sequence
Range(seq) == { seq[i] : i \in 1..Len(seq) }

(***************************************************************************)
(* Specification SpecMessage: one EventProcessor.process_message call on   *)
(* any record, well formed or not, with the urgent-ticket e-mail of        *)
(* process_event                                                           *)
(***************************************************************************)
\* message texts: the empty string, a text that is not JSON, or the JSON
\* text of a value (json_loads gives the value back)
EmptyText == [kind |-> "empty"]
InvalidJsonText == [kind |-> "invalid"]
JsonText(v) == [kind |-> "json", json |-> v]

\* JSON values that are not objects
JsonNull == [json_type |-> "null"]
JArray == [json_type |-> "array"]

\* isinstance(v, str) and the values that have keys() and get()
is_str(v) == "kind" \in DOMAIN v
is_dict(v) == "kind" \notin DOMAIN v /\ "json_type" \notin DOMAIN v

UrgentPayload ==
  [ event_type |-> "jira.ticket.urgent", jira_ticket_text |-> "server down" ]
UrgentPayloadNoText ==
  [ event_type |-> "jira.ticket.urgent", jira_ticket_text |-> "" ]

\* values of the message's payload field
MessagePayloads ==
  { JsonNull, JArray, EmptyPayload, [event_type |-> "order.created"], UrgentPayload,
    UrgentPayloadNoText, [event_type |-> "jira.ticket.urgent"],
    InvalidJsonText, JsonText(UrgentPayload) }

\* a JSON object with the fields given; a field is a set holding its value,
\* or empty when the key is absent
body_object(customer_id, event_id, payload) ==
  [ k \in { key \in {"customer_id", "event_id", "payload"} :
              \/ key = "customer_id" /\ customer_id # {}
              \/ key = "event_id" /\ event_id # {}
              \/ key = "payload" /\ payload # {} } |->
      CASE k = "customer_id" -> CHOOSE v \in customer_id : TRUE
        [] k = "event_id"    -> CHOOSE v \in event_id : TRUE
        [] k = "payload"     -> CHOOSE v \in payload : TRUE ]

\* the event the message is about: the first id after those stored before
MessageEventId == Cardinality(StoredBefore) + 1

MessageBodies ==
  { body_object(customer_id, event_id, payload) :
      customer_id \in {{}, {""}, {"cust-A"}},
      event_id \in {{}, {NoEvent}, {MessageEventId}},
      payload \in {{}} \cup { {v} : v \in MessagePayloads } }

\* the records handed to process_message: without a body, with an empty
\* body, with a body that is not JSON, with JSON that is not an object, and
\* with an object
SqsRecords ==
  { [messageId |-> MessageEventId] }
    \cup { [messageId |-> MessageEventId, body |-> text] :
             text \in {EmptyText, InvalidJsonText, JsonText(JArray)} }
    \cup { [messageId |-> MessageEventId, body |-> JsonText(body)] :
             body \in MessageBodies }

\* process_message up to the process_event call (event_processor.py:
\* 195-243): [outcome, raised, customer_id, event_id, payload]; outcome is
\* "ok", or the reason for returning False
refuse(outcome, raised) ==
  [ outcome |-> outcome, raised |-> raised, customer_id |-> None,
    event_id |-> NoEvent, payload |-> EmptyPayload ]

\* the test "if not payload", which an empty object fails too
payload_missing_falsy(payload) == payload = JsonNull \/ payload = EmptyPayload

\* the test of event_processor.py:232, "if payload is None"
payload_missing(payload) == payload = JsonNull

parse_record(sqs_record) ==
  IF ~has_body(sqs_record) THEN refuse("Missing body", FALSE)
  ELSE LET body_str == sqs_record["body"] IN
  IF body_str.kind = "empty" THEN refuse("Missing body", FALSE)
  ELSE IF body_str.kind = "invalid" THEN refuse("JSONDecodeError", FALSE)
  ELSE LET body == json_loads(body_str) IN
  IF ~is_dict(body) THEN refuse("AttributeError", TRUE)
  ELSE LET customer_id == DictGet(body, "customer_id", None)
           event_id == DictGet(body, "event_id", NoEvent)
           payload == DictGet(body, "payload", JsonNull)
       IN
  IF customer_id = None \/ customer_id = "" THEN refuse("Missing customer_id", FALSE)
  ELSE IF event_id = NoEvent THEN refuse("Missing event_id", FALSE)
  ELSE IF payload_missing(payload) THEN refuse("Missing payload", FALSE)
  ELSE IF is_str(payload) /\ payload.kind # "json" THEN refuse("JSONDecodeError", TRUE)
  ELSE [ outcome |-> "ok", raised |-> FALSE, customer_id |-> customer_id,
         event_id |-> event_id,
         payload |-> IF is_str(payload) THEN json_loads(payload) ELSE payload ]

\* process_event, event_processor.py:63-68: an urgent Jira ticket event
\* with a ticket text
urgent_email_due(payload) ==
  /\ DictGet(payload, "event_type", "") = "jira.ticket.urgent"
  /\ DictGet(payload, "jira_ticket_text", "") # ""

\* EmailService.send_urgent_jira_notification never raises: it returns True
\* when Resend accepted the e-mail and False otherwise
NotificationOutcomes == {"sent", "no client", "refused", "raises"}
send_urgent_jira_notification(outcome) == outcome = "sent"

\* the e-mail placed after the subscriptions and deliveries
steps_email_last(email, subscriptions_loaded, deliveries) ==
  subscriptions_loaded \o deliveries \o email

\* the order of process_event's calls: the e-mail (lines 64-78), then
\* get_subscriptions (line 83), then the deliveries (lines 122 onwards)
steps_in_order(email, subscriptions_loaded, deliveries) ==
  email \o subscriptions_loaded \o deliveries

\* the calls of a process_event run in order, given the e-mail call made
\* (if any) and the run from get_subscriptions on
run_steps(email, processed) ==
  [ result |-> processed.result, items |-> processed.items,
    steps |-> steps_in_order(
                email, << [call |-> "get_subscriptions"] >>,
                [ i \in 1..Len(processed.calls) |->
                    [ call |-> "deliver_with_retry",
                      workflow_id |-> processed.calls[i].workflow_id,
                      success |-> processed.calls[i].success ] ]),
    raised |-> processed.raised ]

\* EventProcessor.process_event with its calls in order: [result, items,
\* steps, raised]
process_event_steps(items, customer_id, event_id, payload, subscriptions, responses_of, email_outcome) ==
  IF ~is_dict(payload)
  THEN [ result |-> process_event_except, items |-> items, steps |-> << >>,
         raised |-> TRUE ]
  ELSE run_steps(IF urgent_email_due(payload)
                 THEN << [ call |-> "send_urgent_jira_notification",
                           sent |-> send_urgent_jira_notification(email_outcome) ] >>
                 ELSE << >>,
                 process_event(items, customer_id, event_id, payload,
                               subscriptions, responses_of))

\* EventProcessor.process_message, whole: [result, items, steps, called,
\* outcome]; called tells that process_event was called
\* what process_message returns after a process_event run
processed_message(run) ==
  [ result |-> run.result, items |-> run.items, steps |-> run.steps,
    called |-> TRUE, outcome |-> "ok" ]

\* process_message from the parsed fields on (event_processor.py:246-253)
process_parsed(parsed, items, subscriptions, responses_of, email_outcome) ==
  IF parsed.outcome # "ok"
  THEN [ result |-> FALSE, items |-> items, steps |-> << >>, called |-> FALSE,
         outcome |-> parsed.outcome ]
  ELSE processed_message(
         process_event_steps(items, parsed.customer_id, parsed.event_id,
                             parsed.payload, subscriptions, responses_of,
                             email_outcome))

EventProcessor_process_message(sqs_record, items, subscriptions, responses_of, email_outcome) ==
  process_parsed(parse_record(sqs_record), items, subscriptions, responses_of,
                 email_outcome)

\* the webhook targets answer 200, or 404
MessageWebhookScenarios == { responses \in WebhookScenarios : responses[1] \in {200, 404} }

InitMessage ==
  /\ customer_status = [c \in Customers |-> "active"]
  /\ req = [r \in Reqs |-> IdleRequest]
  /\ listed = [r \in Reqs |-> {}]
  /\ event_table = StoredBefore
                     \cup { new_item("cust-A", MessageEventId, EmptyPayload, "pending") }
  /\ table_state = "uninit"
  /\ sqs_client_cached = FALSE
  /\ sqs_event_queue_url = "queue-url"
  /\ queue = {}
  /\ idem_redis = TRUE
  /\ idem_cache = [k \in IdemKeys |-> Absent]
  /\ next_uuid = MessageEventId
  /\ acted_for = {}
  /\ deleted_log = {}
  /\ RateLimiterUnused
  /\ worker_form = "lambda"
  /\ esm_report_failures = TRUE
  /\ subscription_table \in {Subscriptions, SubscriptionsSelective}
  /\ worker = IdleWorker
  /\ webhook_log = NoRun
  /\ matcher = [ matcher_call(EmptyPayload, NoSelector) EXCEPT !.pc = "unused" ]
  /\ webhook_call = [ delivery_call(webhook_max_retries,
                                    [attempt \in 1..(webhook_max_retries + 1) |-> 200])
                        EXCEPT !.pc = "unused" ]
  /\ validation = [pc |-> "unused"]
  /\ health = [pc |-> "unused"]
  /\ demo = [pc |-> "unused"]
  /\ inbox_query = [pc |-> "unused"]
  /\ poller = [pc |-> "unused"]
  /\ aws_call = [pc |-> "unused"]
  /\ \E sqs_record \in SqsRecords, email_outcome \in NotificationOutcomes :
       message_call = [ pc |-> "called", sqs_record |-> sqs_record,
                        email_outcome |-> email_outcome,
                        subscriptions |-> << >>, loading |-> "ok",
                        responses_of |-> [w \in {} |-> << >>],
                        result |-> FALSE, steps |-> << >>, called |-> FALSE,
                        outcome |-> "ok", items_before |-> {},
                        items_after |-> {} ]

\* the rows get_subscriptions finds for the parsed message
rows_for(parsed, table, loading) ==
  IF parsed.outcome = "ok"
  THEN get_subscriptions(table, parsed.customer_id, loading)
  ELSE {}

\* the record of the call after its return
message_returned(called, returned, subscriptions, loading, responses_of, items) ==
  [ called EXCEPT
      !.pc = "returned", !.subscriptions = subscriptions,
      !.loading = loading, !.responses_of = responses_of,
      !.result = returned.result,
      !.steps = returned.steps, !.called = returned.called,
      !.outcome = returned.outcome, !.items_before = items,
      !.items_after = returned.items ]

\* the call runs to its return
process_message_call ==
  /\ message_call.pc = "called"
  /\ \E loading \in {"ok", "raises"} :
       \E subscriptions \in Orderings(rows_for(parse_record(message_call.sqs_record),
                                                subscription_table, loading)) :
       \E responses_of \in
            [ { sub.workflow_id : sub \in Range(subscriptions) }
                -> MessageWebhookScenarios ] :
         /\ message_call' =
              message_returned(
                message_call,
                EventProcessor_process_message(
                  message_call.sqs_record, event_table, subscriptions,
                  responses_of, message_call.email_outcome),
                subscriptions, loading, responses_of, event_table)
         /\ event_table' = message_call'.items_after
  /\ UNCHANGED << customer_status, req, listed, table_state, sqs_client_cached,
                  sqs_event_queue_url, queue, idem_redis, idem_cache, next_uuid,
                  acted_for, deleted_log >>
  /\ UNCHANGED rate_vars
  /\ UNCHANGED worker_vars
  /\ UNCHANGED << matcher, webhook_call, validation, health, demo, inbox_query,
                  poller, aws_call >>

NextMessage == process_message_call

SpecMessage == InitMessage /\ [][NextMessage]_vars

\* the record's body, when it is the JSON text of an object
BodyObject ==
  LET sqs_record == message_call.sqs_record IN
  IF has_body(sqs_record) /\ sqs_record["body"].kind = "json"
       /\ is_dict(json_loads(sqs_record["body"]))
  THEN json_loads(sqs_record["body"]) ELSE EmptyPayload

\* the record has no body, its body is not valid JSON, or customer_id,
\* event_id or payload is missing from it
Malformed ==
  LET sqs_record == message_call.sqs_record IN
  \/ ~has_body(sqs_record)
  \/ sqs_record["body"].kind # "json"
  \/ /\ is_dict(json_loads(sqs_record["body"]))
     /\ \/ DictGet(BodyObject, "customer_id", "") = ""
        \/ DictGet(BodyObject, "event_id", NoEvent) = NoEvent
        \/ DictGet(BodyObject, "payload", JsonNull) = JsonNull

\* C31: process_message returns false, without calling process_event and
\* without writing any event status, whenever the record has no body, the
\* body is not valid JSON, or customer_id, event_id or a payload is missing;
\* a message whose payload is the empty object is processed.
C31_MalformedRefused ==
  message_call.pc = "returned" =>
    /\ Malformed => /\ ~message_call.result
                    /\ ~message_call.called
                    /\ message_call.steps = << >>
                    /\ event_table = message_call.items_before
    /\ ( /\ ~Malformed /\ is_dict(json_loads(message_call.sqs_record["body"]))
         /\ BodyObject["payload"] = EmptyPayload )
         => /\ message_call.called
            /\ message_call.steps # << >>
            /\ \E i \in event_table :
                 i.event_id = MessageEventId /\ i.status # "pending"

\* a record whose body lacks the payload was refused
C31_Witness ==
  /\ message_call.pc = "returned"
  /\ BodyObject # EmptyPayload
  /\ "payload" \notin DOMAIN BodyObject
  /\ DictGet(BodyObject, "customer_id", "") = "cust-A"
  /\ ~message_call.result /\ message_call.outcome = "Missing payload"

\* a message with the empty object as payload was processed and the event
\* delivered
C31_WitnessEmptyPayload ==
  /\ message_call.pc = "returned"
  /\ DictGet(BodyObject, "payload", JsonNull) = EmptyPayload
  /\ message_call.called /\ message_call.result
  /\ \E i \in event_table : i.event_id = MessageEventId /\ i.status = "delivered"

\* a body that is not JSON was refused
C31_WitnessInvalidJson ==
  /\ message_call.pc = "returned"
  /\ has_body(message_call.sqs_record)
  /\ message_call.sqs_record["body"] = InvalidJsonText
  /\ ~message_call.result /\ ~message_call.called

(***************************************************************************)
(* The urgent-ticket e-mail                                                *)
(***************************************************************************)
\* the payload process_event was given
ParsedPayload == parse_record(message_call.sqs_record).payload

\* process_event ran on an urgent Jira ticket event with a ticket text
UrgentRun ==
  /\ message_call.pc = "returned" /\ message_call.called
  /\ is_dict(ParsedPayload) /\ urgent_email_due(ParsedPayload)

\* the positions of the e-mail calls among the run's calls
EmailSteps ==
  { i \in 1..Len(message_call.steps) :
      message_call.steps[i].call = "send_urgent_jira_notification" }

\* C33: for an event of type jira.ticket.urgent with a ticket text,
\* process_event calls the urgent-notification e-mail exactly once, before
\* it loads the subscriptions and before any webhook call, also when the
\* event ends unmatched; and whatever the e-mail call returns, the later
\* steps, the stored events and the value returned are the same.
C33_UrgentEmailFirst ==
  UrgentRun =>
    /\ EmailSteps = {1}
    /\ Len(message_call.steps) >= 2
    /\ message_call.steps[2].call = "get_subscriptions"
    /\ \A email_outcome \in NotificationOutcomes :
         LET other == EventProcessor_process_message(
                        message_call.sqs_record, message_call.items_before,
                        message_call.subscriptions, message_call.responses_of,
                        email_outcome)
         IN /\ other.result = message_call.result
            /\ other.items = event_table
            /\ Tail(other.steps) = Tail(message_call.steps)

\* the e-mail call failed, and the event was then delivered to a webhook
C33_Witness ==
  /\ UrgentRun
  /\ ~message_call.steps[1].sent
  /\ Len(message_call.steps) >= 3
  /\ message_call.steps[3].call = "deliver_with_retry"
  /\ message_call.result

\* the e-mail was sent for an event that no subscription matched
C33_WitnessUnmatched ==
  /\ UrgentRun
  /\ message_call.steps[1].sent
  /\ message_call.subscriptions # << >>
  /\ Len(message_call.steps) = 2
  /\ \E i \in event_table : i.event_id = MessageEventId /\ i.status = "unmatched"

(***************************************************************************)
(* Specification SpecRetry: one store_event or enqueue_event call under    *)
(* every course of its attempts, from any state of the cached clients      *)
(***************************************************************************)
InitRetry ==
  /\ customer_status = [c \in Customers |-> "active"]
  /\ req = [r \in Reqs |-> IdleRequest]
  /\ listed = [r \in Reqs |-> {}]
  /\ event_table = StoredBefore
  /\ table_state \in {"uninit", "ready", "disabled"}
  /\ sqs_client_cached \in BOOLEAN
  /\ sqs_event_queue_url = "queue-url"
  /\ queue = {}
  /\ idem_redis = TRUE
  /\ idem_cache = [k \in IdemKeys |-> Absent]
  /\ next_uuid = Cardinality(StoredBefore)
  /\ acted_for = {}
  /\ deleted_log = {}
  /\ RateLimiterUnused
  /\ WorkerUnused
  /\ matcher = [ matcher_call(EmptyPayload, NoSelector) EXCEPT !.pc = "unused" ]
  /\ webhook_call = [ delivery_call(webhook_max_retries,
                                    [attempt \in 1..(webhook_max_retries + 1) |-> 200])
                        EXCEPT !.pc = "unused" ]
  /\ validation = [pc |-> "unused"]
  /\ health = [pc |-> "unused"]
  /\ demo = [pc |-> "unused"]
  /\ inbox_query = [pc |-> "unused"]
  /\ message_call = [pc |-> "unused"]
  /\ poller = [pc |-> "unused"]
  /\ \E operation \in {"store_event", "enqueue_event"}, outs \in Scenarios :
       aws_call = [ pc |-> "called", operation |-> operation, outs |-> outs,
                    table_before |-> table_state, cached_before |-> sqs_client_cached,
                    result |-> FALSE, calls |-> 0 ]

\* a store_event call runs to its return
store_event_call ==
  /\ aws_call.pc = "called" /\ aws_call.operation = "store_event"
  /\ LET stored == store_event(table_state, event_table, sqs_client_cached, "cust-A",
                               next_uuid + 1, [event_type |-> "order.created"],
                               "pending", aws_call.outs)
     IN /\ event_table' = stored.items
        /\ table_state' = stored.table_state
        /\ sqs_client_cached' = stored.sqs_cached
        /\ aws_call' = [ aws_call EXCEPT !.pc = "returned", !.result = stored.result,
                                           !.calls = stored.calls ]
  /\ UNCHANGED << customer_status, req, listed, sqs_event_queue_url, queue,
                  idem_redis, idem_cache, next_uuid, acted_for, deleted_log >>
  /\ UNCHANGED rate_vars
  /\ UNCHANGED worker_vars
  /\ UNCHANGED << matcher, webhook_call, validation, health, demo, inbox_query,
                  message_call, poller >>

\* an enqueue_event call runs to its return
enqueue_event_call ==
  /\ aws_call.pc = "called" /\ aws_call.operation = "enqueue_event"
  /\ LET enqueued == enqueue_event(sqs_event_queue_url, sqs_client_cached, queue,
                                   "cust-A", next_uuid + 1,
                                   [event_type |-> "order.created"], aws_call.outs)
     IN /\ queue' = enqueued.queue
        /\ sqs_client_cached' = enqueued.sqs_cached
        /\ aws_call' = [ aws_call EXCEPT !.pc = "returned", !.result = enqueued.result,
                                           !.calls = enqueued.calls ]
  /\ UNCHANGED << customer_status, req, listed, event_table, table_state,
                  sqs_event_queue_url, idem_redis, idem_cache, next_uuid, acted_for,
                  deleted_log >>
  /\ UNCHANGED rate_vars
  /\ UNCHANGED worker_vars
  /\ UNCHANGED << matcher, webhook_call, validation, health, demo, inbox_query,
                  message_call, poller >>

NextRetry == store_event_call \/ enqueue_event_call

SpecRetry == InitRetry /\ [][NextRetry]_vars

\* the attempts that made their call to the service: 0 .. calls - 1
CallsMade == { a \in Attempts : a < aws_call.calls }

\* C34: store_event and enqueue_event make at most 3 calls; a call is
\* followed by another only when it failed with a credential-expiry error
\* code, and then the cached clients were cleared first; any other failure
\* ends the invocation with False right after that call; the invocation
\* always returns, True exactly when its last call succeeded.
C34_BoundedCredentialRetries ==
  aws_call.pc = "returned" =>
    /\ aws_call.calls <= max_retries
    /\ \A a \in CallsMade :
         /\ a + 1 < aws_call.calls => aws_call.outs[a] = "cred_err"
         /\ aws_call.outs[a] = "other_err" => a + 1 = aws_call.calls /\ ~aws_call.result
    /\ aws_call.result <=> ( /\ aws_call.calls > 0
                             /\ aws_call.outs[aws_call.calls - 1] = "ok" )
    /\ ( /\ aws_call.calls > 0
         /\ \E a \in CallsMade : a < max_retries - 1 /\ aws_call.outs[a] = "cred_err"
         /\ aws_call.operation = "store_event" )
         => ~sqs_client_cached

\* two credential errors were retried and the third call succeeded
C34_Witness ==
  /\ aws_call.pc = "returned"
  /\ aws_call.calls = max_retries
  /\ aws_call.result
  /\ aws_call.outs[0] = "cred_err" /\ aws_call.outs[1] = "cred_err"

\* a failure other than a credential error ended the invocation at once
C34_WitnessOtherFailure ==
  /\ aws_call.pc = "returned"
  /\ aws_call.outs[0] = "other_err"
  /\ aws_call.calls = 1 /\ ~aws_call.result

\* the third credential error in a row is not retried
C34_WitnessExhausted ==
  /\ aws_call.pc = "returned"
  /\ \A a \in Attempts : aws_call.outs[a] = "cred_err"
  /\ aws_call.calls = max_retries /\ ~aws_call.result

(***************************************************************************)
(* Specification SpecPoller: the poll loop of the standalone worker        *)
(* (SQSWorker.process_messages) with the termination signal arriving at    *)
(* any moment and every outcome of receive_message                         *)
(***************************************************************************)
\* receive_message calls explored
MaxPolls == 3
\* messages one receive_message call returns here (at most 10 in the code)
MaxBatch == 2

NonExistentQueue == "AWS.SimpleQueueService.NonExistentQueue"

\* what receive_message does: it returns a number of messages, or raises a
\* ClientError with the given code, or raises something else
ReceiveOutcomes ==
  { [raised |-> "none", code |-> "", messages |-> n] : n \in 0..MaxBatch }
    \cup { [raised |-> "ClientError", code |-> code, messages |-> 0] :
             code \in {NonExistentQueue, "AccessDenied"} }
    \cup { [raised |-> "Exception", code |-> "", messages |-> 0] }

\* what happens to one received message: processed and deleted, processed
\* and the delete raised ClientError (a missing queue included), not
\* processed, or an exception other than ClientError reached line 99
MessageOutcomes == {"deleted", "delete ClientError", "failed", "raised"}

\* a loop that leaves on any ClientError of receive_message
breaks_on_any(error_code) == TRUE

\* worker.py:105: the error code on which the loop breaks
breaks_on(error_code) == error_code = NonExistentQueue

InitPoller ==
  /\ IngestInit /\ RateLimiterUnused /\ WorkerUnused
  /\ matcher = [ matcher_call(EmptyPayload, NoSelector) EXCEPT !.pc = "unused" ]
  /\ webhook_call = [ delivery_call(webhook_max_retries,
                                    [attempt \in 1..(webhook_max_retries + 1) |-> 200])
                        EXCEPT !.pc = "unused" ]
  /\ validation = [pc |-> "unused"]
  /\ health = [pc |-> "unused"]
  /\ demo = [pc |-> "unused"]
  /\ inbox_query = [pc |-> "unused"]
  /\ message_call = [pc |-> "unused"]
  /\ aws_call = [pc |-> "unused"]
  /\ poller = [ pc |-> "while",        \* while, receive, for, sleep, stopped
                running |-> TRUE,      \* self.running
                batch |-> 0,           \* received messages not yet handled
                receives |-> 0,        \* history: receive_message calls
                received |-> 0,        \* history: messages received
                handled |-> 0,         \* history: messages passed to process_message
                last |-> "none",       \* history: how the last receive ended
                errors |-> 0,          \* history: receives followed by the pause
                signal_at |-> "none",  \* history: position when the signal came
                receives_at_signal |-> 0,
                left_by |-> "none" ]   \* history: what ended the loop

\* SIGINT or SIGTERM arrives: signal_handler sets self.running = False
signal_handler ==
  /\ poller.pc # "stopped" /\ poller.running
  /\ poller' = [ poller EXCEPT !.running = FALSE, !.signal_at = poller.pc,
                               !.receives_at_signal = poller.receives ]
  /\ UNCHANGED ingest_vars /\ UNCHANGED rate_vars /\ UNCHANGED worker_vars
  /\ UNCHANGED << matcher, webhook_call, validation, health, demo, inbox_query,
                  message_call, aws_call >>

\* worker.py:60, the test of `while self.running`
while_running ==
  /\ poller.pc = "while"
  /\ poller.running => poller.receives < MaxPolls
  /\ poller' = IF poller.running
               THEN [ poller EXCEPT !.pc = "receive" ]
               ELSE [ poller EXCEPT !.pc = "stopped", !.left_by = "running" ]
  /\ UNCHANGED ingest_vars /\ UNCHANGED rate_vars /\ UNCHANGED worker_vars
  /\ UNCHANGED << matcher, webhook_call, validation, health, demo, inbox_query,
                  message_call, aws_call >>

\* worker.py:63-73 and 103-114: receive_message and what follows it
receive_message ==
  /\ poller.pc = "receive"
  /\ \E response \in ReceiveOutcomes :
       poller' =
         LET polled == [ poller EXCEPT !.receives = @ + 1,
                                       !.received = @ + response.messages ]
         IN
         IF response.raised = "none"
         THEN [ polled EXCEPT !.batch = response.messages, !.last = "messages",
                              !.pc = IF response.messages = 0 THEN "while" ELSE "for" ]
         ELSE IF response.raised = "ClientError" /\ breaks_on(response.code)
         THEN [ polled EXCEPT !.pc = "stopped", !.last = response.code,
                              !.left_by = "break" ]
         ELSE [ polled EXCEPT !.pc = "sleep", !.errors = @ + 1,
                              !.last = IF response.raised = "ClientError"
                                       THEN response.code ELSE "Exception" ]
  /\ UNCHANGED ingest_vars /\ UNCHANGED rate_vars /\ UNCHANGED worker_vars
  /\ UNCHANGED << matcher, webhook_call, validation, health, demo, inbox_query,
                  message_call, aws_call >>

\* worker.py:78-101: one turn of the for loop; whatever happens to the
\* message, the loop goes on to the next one
for_message ==
  /\ poller.pc = "for"
  /\ \E outcome \in MessageOutcomes :
       poller' = [ poller EXCEPT !.batch = @ - 1, !.handled = @ + 1,
                                 !.pc = IF poller.batch = 1 THEN "while" ELSE "for" ]
  /\ UNCHANGED ingest_vars /\ UNCHANGED rate_vars /\ UNCHANGED worker_vars
  /\ UNCHANGED << matcher, webhook_call, validation, health, demo, inbox_query,
                  message_call, aws_call >>

\* worker.py:110, 114: asyncio.sleep(5) ends
sleep_over ==
  /\ poller.pc = "sleep"
  /\ poller' = [ poller EXCEPT !.pc = "while" ]
  /\ UNCHANGED ingest_vars /\ UNCHANGED rate_vars /\ UNCHANGED worker_vars
  /\ UNCHANGED << matcher, webhook_call, validation, health, demo, inbox_query,
                  message_call, aws_call >>

NextPoller ==
  \/ signal_handler
  \/ while_running
  \/ receive_message
  \/ for_message
  \/ sleep_over

SpecPoller == InitPoller /\ [][NextPoller]_vars

\* C35: once the signal has set the run flag false, the loop finishes the
\* iteration in progress, handling every message already received, and
\* leaves without starting another receive; a queue-not-found error of
\* receive_message leaves the loop at once; any other error of
\* receive_message does not leave the loop: after the pause the loop test
\* runs again and, the flag still true, another receive follows.
C35_PollLoopExits ==
  /\ [](poller.pc = "stopped" =>
          /\ poller.handled = poller.received /\ poller.batch = 0
          /\ \/ poller.left_by = "running" /\ ~poller.running
             \/ poller.left_by = "break" /\ poller.last = NonExistentQueue)
  /\ [](~poller.running =>
          poller.receives <= poller.receives_at_signal
                               + (IF poller.signal_at = "receive" THEN 1 ELSE 0))
  /\ [][(poller.pc = "receive" /\ poller'.last = NonExistentQueue
           /\ poller'.receives # poller.receives)
          => poller'.pc = "stopped"]_vars
  /\ [][(poller.pc = "receive" /\ poller'.receives # poller.receives
           /\ poller'.last \in {"AccessDenied", "Exception"})
          => poller'.pc = "sleep"]_vars
  /\ [][(poller.pc = "sleep" /\ poller'.pc # "sleep") => poller'.pc = "while"]_vars
  /\ [][(poller.pc = "while" /\ poller.running /\ poller'.pc # "while")
          => poller'.pc = "receive"]_vars

\* the signal came while the first of two received messages was being
\* handled; both were handled and the loop left without another receive
C35_Witness ==
  /\ poller.pc = "stopped" /\ poller.left_by = "running"
  /\ poller.signal_at = "for"
  /\ poller.received = MaxBatch /\ poller.handled = MaxBatch
  /\ poller.receives = poller.receives_at_signal

\* a receive failed with another error and the loop polled again
C35_WitnessPolledAgain ==
  /\ poller.receives = 2 /\ poller.errors = 1
  /\ poller.running
  /\ poller.last = "messages" /\ poller.pc = "for"
  /\ poller.received = 1

\* the queue was not found and the loop was left with the flag still true
C35_WitnessQueueMissing ==
  /\ poller.pc = "stopped" /\ poller.left_by = "break" /\ poller.running

(***************************************************************************)
(* Specification SpecDeleteQueued: an accepted event waits in the queue    *)
(* while one DELETE request may remove it from the inbox and the worker,   *)
(* in either form, processes the queue                                     *)
(***************************************************************************)
\* the first event id after those stored before
QueuedEventId == Cardinality(StoredBefore) + 1

InitDeleteQueued ==
  /\ customer_status = [c \in Customers |-> "active"]
  /\ req = [r \in Reqs |-> IdleRequest]
  /\ listed = [r \in Reqs |-> {}]
  /\ event_table = StoredBefore \cup
                     { new_item("cust-A", QueuedEventId,
                                [event_type |-> "order.created"], "pending") }
  /\ table_state = "ready"
  /\ sqs_client_cached = TRUE
  /\ sqs_event_queue_url = "queue-url"
  /\ queue = { new_message("cust-A", QueuedEventId, [event_type |-> "order.created"]) }
  /\ idem_redis = TRUE
  /\ idem_cache = [k \in IdemKeys |-> Absent]
  /\ next_uuid = QueuedEventId
  /\ acted_for = {}
  /\ deleted_log = {}
  /\ RateLimiterUnused
  /\ UnitsUnused
  /\ worker_form \in {"lambda", "standalone"}
  /\ esm_report_failures \in BOOLEAN
  /\ subscription_table \in {Subscriptions, SubscriptionsSelective}
  /\ worker = IdleWorker
  /\ webhook_log = NoRun

\* DELETE /api/v1/inbox/{event_id} arrives with a customer's API key
delete_request(r) ==
  authenticate(r, {"delete"}, {"key-A", "key-B"}, {"ok"}, {None}, {EmptyPayload})

NextDeleteQueued ==
  \/ delete_request(1)
  \/ inbox_delete_event(1)
  \/ SQSWorker_receive
  \/ lambda_invoke
  \/ worker_process_message
  \/ lambda_return
  \/ visibility_timeout

SpecDeleteQueued == InitDeleteQueued /\ [][NextDeleteQueued]_vars

\* C38: once the inbox delete has removed the record of (customer_id,
\* event_id), no record with that key exists again, whatever the worker
\* does with a message of that event still in the queue.
C38_DeletedStaysDeleted ==
  \A d \in deleted_log :
    get_item(event_table, d.item.customer_id, d.item.event_id) = Absent

====
